---- MODULE Spec2Model ----
(***************************************************************************)
(* Light-propagation engine of light-weaver: the recursive beam tracer     *)
(* (game/light.py) and the interactive surfaces it traces against          *)
(* (game/objects*.py).                                                     *)
(*                                                                         *)
(* Numbers.  The program computes in floating point.  The model computes   *)
(* the same formulas in exact rational arithmetic (a rational is a record  *)
(* [n, d] in lowest terms, d > 0).  math.sqrt is exact on squares of       *)
(* rationals and rounded down to 1/Grid elsewhere; math.cos / math.sin of  *)
(* a mirror angle come from a three-decimal table; the prism's rotation by *)
(* 0.1 radians uses the rational point (399/401, 40/401) of the unit       *)
(* circle (0.09992 rad).  The circle routines and the mirror's end points  *)
(* keep their intermediate values on the grid of 1/Grid, as a float keeps  *)
(* a fixed number of digits.                                               *)
(***************************************************************************)
EXTENDS Integers, Sequences, FiniteSets, TLC

\* ------------------------------------------------------------------------
\* Rational arithmetic
\* ------------------------------------------------------------------------

Abs(a) == IF a < 0 THEN -a ELSE a

RECURSIVE GCD(_, _)
GCD(a, b) == IF b = 0 THEN a ELSE GCD(b, a % b)

\* The rational n/d (d # 0) in lowest terms with a positive denominator.
Q(n, d) ==
    LET g == GCD(Abs(n), Abs(d))
        s == IF d < 0 THEN -1 ELSE 1
    IN  [n |-> s * (n \div g), d |-> s * (d \div g)]

QI(i) == [n |-> i, d |-> 1]

QNeg(a) == [n |-> -a.n, d |-> a.d]

QAdd(a, b) ==
    LET g == GCD(a.d, b.d)
    IN  Q(a.n * (b.d \div g) + b.n * (a.d \div g), (a.d \div g) * b.d)

QSub(a, b) == QAdd(a, QNeg(b))

QMul(a, b) ==
    LET g1 == GCD(Abs(a.n), b.d)
        g2 == GCD(Abs(b.n), a.d)
    IN  IF a.n = 0 \/ b.n = 0 THEN QI(0)
        ELSE Q((a.n \div g1) * (b.n \div g2), (a.d \div g2) * (b.d \div g1))

\* a / b for b # 0 (the caller guards, as the code does).
QDiv(a, b) == QMul(a, Q(b.d, b.n))

QSgn(a) == IF a.n > 0 THEN 1 ELSE IF a.n < 0 THEN -1 ELSE 0

\* The sign of n1/d1 - n2/d2 (d1, d2 > 0), by whole parts and then by the
\* reciprocals of the remainders, so that no product is formed.
RECURSIVE QCmp(_, _, _, _)
QCmp(n1, d1, n2, d2) ==
    LET f1 == n1 \div d1
        f2 == n2 \div d2
        r1 == n1 % d1
        r2 == n2 % d2
    IN  IF f1 # f2 THEN (IF f1 < f2 THEN -1 ELSE 1)
        ELSE IF r1 = 0 \/ r2 = 0
        THEN (IF r1 = r2 THEN 0 ELSE IF r1 = 0 THEN -1 ELSE 1)
        ELSE -QCmp(d1, r1, d2, r2)

QLt(a, b) == QCmp(a.n, a.d, b.n, b.d) < 0

QLe(a, b) == QCmp(a.n, a.d, b.n, b.d) <= 0

QSq(a) == QMul(a, a)

RECURSIVE SqrtSearch(_, _, _)
SqrtSearch(n, lo, hi) ==
    IF lo >= hi THEN lo
    ELSE LET mid == (lo + hi + 1) \div 2
         IN  IF mid <= n \div mid THEN SqrtSearch(n, mid, hi)
             ELSE SqrtSearch(n, lo, mid - 1)

\* floor(sqrt(n)) for n >= 0
ISqrt(n) == IF n < 2 THEN n ELSE SqrtSearch(n, 1, n)

IsSquare(n) == ISqrt(n) * ISqrt(n) = n

\* Floating-point values that are not rationals of small denominator (the
\* values a root or a normalised direction takes in the circle routines) are
\* kept to the nearest multiple of 1 / Grid.
Grid == 10

\* q to the nearest multiple of 1 / Grid; a multiple is left as it is.
Fl(q) ==
    IF Grid % q.d = 0 THEN q
    ELSE Q((2 * q.n * Grid + q.d) \div (2 * q.d), Grid)

\* math.sqrt: exact when the argument is the square of a rational, else
\* rounded down to a multiple of 1 / Grid.
QSqrt(a) ==
    IF IsSquare(a.n) /\ IsSquare(a.d) THEN Q(ISqrt(a.n), ISqrt(a.d))
    ELSE LET k == Grid * Grid
         IN  Q(ISqrt((a.n \div a.d) * k + ((a.n % a.d) * k) \div a.d), Grid)

\* ------------------------------------------------------------------------
\* Vectors (pairs of rationals)
\* ------------------------------------------------------------------------

V(x, y) == [x |-> x, y |-> y]

VI(x, y) == [x |-> QI(x), y |-> QI(y)]

VSub(p, q) == V(QSub(p.x, q.x), QSub(p.y, q.y))

VAdd(p, q) == V(QAdd(p.x, q.x), QAdd(p.y, q.y))

VScale(p, k) == V(QMul(p.x, k), QMul(p.y, k))

Dot(p, q) == QAdd(QMul(p.x, q.x), QMul(p.y, q.y))

Norm2(p) == Dot(p, p)

\* v / |v|  (np.linalg.norm, or math.sqrt of the squared components)
Normalize(p) == VScale(p, QDiv(QI(1), QSqrt(Norm2(p))))

\* ------------------------------------------------------------------------
\* constants.py (not among the sources: values as the specification and the
\* callers use them)
\* ------------------------------------------------------------------------

WHITE == <<255, 255, 255>>
RED == <<255, 0, 0>>
GREEN == <<0, 255, 0>>
BLUE == <<0, 0, 255>>
YELLOW == <<255, 255, 0>>
CYAN == <<0, 255, 255>>
MAGENTA == <<255, 0, 255>>

MAX_REFLECTIONS == 4
BEAM_MAX_LENGTH == 1000
MIRROR_WIDTH == 60
PRISM_SIZE == 40
FILTER_SIZE == 40
CHECKPOINT_SIZE == 40
SHADOW_CREATURE_SIZE == 40
MAX_LEVEL == 10

\* ------------------------------------------------------------------------
\* math.cos, math.sin, math.radians on multiples of 5 degrees
\* ------------------------------------------------------------------------

CosTable ==
    << 1000, 996, 985, 966, 940, 906, 866, 819, 766, 707,
       643, 574, 500, 423, 342, 259, 174, 87, 0 >>

CosMilli(deg) ==
    LET a == deg % 360
    IN  IF a <= 90 THEN CosTable[(a \div 5) + 1]
        ELSE IF a <= 180 THEN -CosTable[((180 - a) \div 5) + 1]
        ELSE IF a <= 270 THEN -CosTable[((a - 180) \div 5) + 1]
        ELSE CosTable[((360 - a) \div 5) + 1]

Cos(deg) == Q(CosMilli(deg), 1000)

Sin(deg) == Q(CosMilli(deg + 270), 1000)

\* cos(0.1) and sin(0.1): the rational point of the unit circle at 2*atan(1/20)
Cos01 == Q(399, 401)

Sin01 == Q(40, 401)

\* Fault: the offset is subtracted from the angle instead of added.
AngleDirReversed(d, k) ==
    LET u == Normalize(d)
        s == QMul(QI(-k), Sin01)
    IN  IF k = 0 THEN u
        ELSE V(QSub(QMul(u.x, Cos01), QMul(u.y, s)),
               QAdd(QMul(u.x, s), QMul(u.y, Cos01)))

\* (cos(t + k * 0.1), sin(t + k * 0.1)) for t = atan2(d.y, d.x), k in {-1, 0, 1}:
\* the round trip through atan2 normalises d, the offset rotates it.
AngleDir(d, k) ==
    LET u == Normalize(d)
        s == QMul(QI(k), Sin01)
    IN  IF k = 0 THEN u
        ELSE V(QSub(QMul(u.x, Cos01), QMul(u.y, s)),
               QAdd(QMul(u.x, s), QMul(u.y, Cos01)))

\* A normal is the vector (x, y) / sqrt(len2).
Nrm(x, y, len2) == [x |-> x, y |-> y, len2 |-> len2]

NoHit == [hit |-> FALSE]

Hit(p, normal) == [hit |-> TRUE, p |-> p, normal |-> normal]

\* ------------------------------------------------------------------------
\* Mirror (objects.py)
\* ------------------------------------------------------------------------

\* The geometry update_rect derives from the position and the angle of m.
MirrorStart(m) ==
    V(Fl(QSub(QI(m.x), QMul(Q(MIRROR_WIDTH, 2), Cos(m.angle)))),
      Fl(QSub(QI(m.y), QMul(Q(MIRROR_WIDTH, 2), Sin(m.angle)))))

MirrorEnd(m) ==
    V(Fl(QAdd(QI(m.x), QMul(Q(MIRROR_WIDTH, 2), Cos(m.angle)))),
      Fl(QAdd(QI(m.y), QMul(Q(MIRROR_WIDTH, 2), Sin(m.angle)))))

\* (cos(radians + pi/2), sin(radians + pi/2)): the table's value, made exactly
\* unit by its own length.
MirrorNormal(m) ==
    LET c == Cos(m.angle + 90)
        s == Sin(m.angle + 90)
    IN  Nrm(c, s, QAdd(QSq(c), QSq(s)))

\* Fault: `ub >= 0`, so that a ray starting on the segment hits it at once.
SegmentRayInclusive(p1, p2, ray, dir) ==
    LET x1 == p1.x   y1 == p1.y
        x2 == p2.x   y2 == p2.y
        x3 == ray.x  y3 == ray.y
        den1 == QSub(QMul(dir.y, QSub(x2, x1)), QMul(dir.x, QSub(y2, y1)))
        den == QMul(den1, QI(BEAM_MAX_LENGTH))
        ua == QDiv(QSub(QMul(dir.x, QSub(y1, y3)), QMul(dir.y, QSub(x1, x3))), den1)
        ub == QDiv(QDiv(QSub(QMul(QSub(x2, x1), QSub(y1, y3)),
                             QMul(QSub(y2, y1), QSub(x1, x3))), den1),
                   QI(BEAM_MAX_LENGTH))
    IN  IF den.n = 0 THEN [hit |-> FALSE]
        ELSE IF QLe(QI(0), ua) /\ QLe(ua, QI(1)) /\ QLe(QI(0), ub)
             THEN [hit |-> TRUE,
                   p |-> V(QAdd(x1, QMul(ua, QSub(x2, x1))),
                           QAdd(y1, QMul(ua, QSub(y2, y1))))]
             ELSE [hit |-> FALSE]

\* The segment test shared by Mirror.intersect_with_ray and each side of
\* Prism.intersect_with_ray: the hit point for parameters ua (along the
\* segment) and ub (along the ray's BEAM_MAX_LENGTH span), or no hit.
\* x4 - x3 and y4 - y3 are dir * BEAM_MAX_LENGTH; the factor common to ua's
\* numerator and denominator is cancelled before multiplying.
SegmentRay(p1, p2, ray, dir) ==
    LET x1 == p1.x   y1 == p1.y
        x2 == p2.x   y2 == p2.y
        x3 == ray.x  y3 == ray.y
        den1 == QSub(QMul(dir.y, QSub(x2, x1)), QMul(dir.x, QSub(y2, y1)))
        den == QMul(den1, QI(BEAM_MAX_LENGTH))
        ua == QDiv(QSub(QMul(dir.x, QSub(y1, y3)), QMul(dir.y, QSub(x1, x3))), den1)
        ub == QDiv(QDiv(QSub(QMul(QSub(x2, x1), QSub(y1, y3)),
                             QMul(QSub(y2, y1), QSub(x1, x3))), den1),
                   QI(BEAM_MAX_LENGTH))
    IN  IF den.n = 0 THEN [hit |-> FALSE]
        ELSE IF QLe(QI(0), ua) /\ QLe(ua, QI(1)) /\ QLt(QI(0), ub)
             THEN [hit |-> TRUE,
                   p |-> V(QAdd(x1, QMul(ua, QSub(x2, x1))),
                           QAdd(y1, QMul(ua, QSub(y2, y1))))]
             ELSE [hit |-> FALSE]

\* Mirror.update_rect: start_point, end_point and normal are stored on the
\* mirror (rect is rendering and collision state).
update_rect(m) ==
    [kind |-> "mirror", x |-> m.x, y |-> m.y, angle |-> m.angle,
     start_point |-> MirrorStart(m), end_point |-> MirrorEnd(m),
     normal |-> MirrorNormal(m)]

\* Mirror.__init__
Mirror(x, y, angle) == update_rect([x |-> x, y |-> y, angle |-> angle])

rotation_speed == 5

\* Fault: the angle is changed and the stored geometry left as it was.
MirrorInteractStale(m) == [m EXCEPT !.angle = (m.angle + rotation_speed) % 360]

\* Mirror.interact
MirrorInteract(m) == update_rect([m EXCEPT !.angle = (m.angle + rotation_speed) % 360])

\* Mirror.intersect_with_ray reads the stored endpoints and normal.
MirrorIntersect(m, ray, dir) ==
    LET r == SegmentRay(m.start_point, m.end_point, ray, dir)
    IN  IF r.hit THEN Hit(r.p, m.normal) ELSE NoHit

\* Fault: the factor 2 of the reflection formula is lost, r = d - (d . n) n.
ReflectProjected(d, normal) ==
    LET v == V(normal.x, normal.y)
        k == QDiv(Dot(d, v), normal.len2)
    IN  Normalize(VSub(d, VScale(v, k)))

\* Fault: the mirror image about the normal's axis, r = 2 (d . n) n - d.
ReflectAboutNormal(d, normal) ==
    LET v == V(normal.x, normal.y)
        k == QDiv(QMul(QI(2), Dot(d, v)), normal.len2)
    IN  Normalize(VSub(VScale(v, k), d))

\* r = d - 2 (d . n) n, then r / |r|
Reflect(d, normal) ==
    LET v == V(normal.x, normal.y)
        k == QDiv(QMul(QI(2), Dot(d, v)), normal.len2)
    IN  Normalize(VSub(d, VScale(v, k)))

MirrorInteractWithLight(m, color, hit_point, direction, normal) ==
    << [type |-> "reflect", direction |-> Reflect(direction, normal),
        color |-> color, intensity |-> 95] >>


\* ------------------------------------------------------------------------
\* Prism (objects.py)
\* ------------------------------------------------------------------------

Prism(x, y) == [kind |-> "prism", x |-> x, y |-> y]

PrismPoints(pr) ==
    << V(QI(pr.x), QSub(QI(pr.y), Q(PRISM_SIZE, 2))),
       V(QSub(QI(pr.x), Q(PRISM_SIZE, 2)), QAdd(QI(pr.y), Q(PRISM_SIZE, 2))),
       V(QAdd(QI(pr.x), Q(PRISM_SIZE, 2)), QAdd(QI(pr.y), Q(PRISM_SIZE, 2))) >>

PrismSides(pr) ==
    LET pts == PrismPoints(pr)
    IN  << <<pts[1], pts[2]>>, <<pts[2], pts[3]>>, <<pts[3], pts[1]>> >>

\* (-dy, dx) / length, turned away from the prism's position
PrismSideNormal(pr, i) ==
    LET p1 == PrismSides(pr)[i][1]
        p2 == PrismSides(pr)[i][2]
        dx == QSub(p2.x, p1.x)
        dy == QSub(p2.y, p1.y)
        nx == QNeg(dy)
        ny == dx
        center_to_normal ==
            QAdd(QMul(nx, QSub(QI(pr.x), p1.x)), QMul(ny, QSub(QI(pr.y), p1.y)))
        len2 == QAdd(QSq(dx), QSq(dy))
    IN  IF QSgn(center_to_normal) > 0 THEN Nrm(QNeg(nx), QNeg(ny), len2)
        ELSE Nrm(nx, ny, len2)

\* math.sqrt((x - ray_x)**2 + (y - ray_y)**2) of two points of one ray is
\* compared through the ray parameter: a point p of the ray is ray + t * dir
\* with t >= 0 and its distance is t * |dir|.
RayParam(p, ray, dir) ==
    IF dir.x.n # 0 THEN QDiv(QSub(p.x, ray.x), dir.x) ELSE QDiv(QSub(p.y, ray.y), dir.y)

Nearer(p, q, ray, dir) == QLt(RayParam(p, ray, dir), RayParam(q, ray, dir))

\* The loop over the three sides: the state after side i, starting from
\* closest (no hit). A later side replaces the closest only when strictly
\* nearer.
RECURSIVE PrismClosest(_, _, _, _)
PrismClosest(pr, ray, dir, i) ==
    IF i = 0 THEN NoHit
    ELSE LET prev == PrismClosest(pr, ray, dir, i - 1)
             r == SegmentRay(PrismSides(pr)[i][1], PrismSides(pr)[i][2], ray, dir)
         IN  IF r.hit /\ (~prev.hit \/ Nearer(r.p, prev.p, ray, dir))
             THEN Hit(r.p, PrismSideNormal(pr, i))
             ELSE prev

PrismIntersect(pr, ray, dir) == PrismClosest(pr, ray, dir, 3)

\* Fault: the undeviated beam of a split keeps the WHITE of the light that
\* entered.
PrismKeepsWhite(pr, color, hit_point, direction, normal) ==
    LET is_entering == QSgn(Dot(direction, V(normal.x, normal.y))) < 0
        pass == << [type |-> "refract", direction |-> AngleDir(direction, 0),
                    color |-> color, intensity |-> 95] >>
    IN  IF color = WHITE
        THEN IF is_entering
             THEN << [type |-> "refract", direction |-> AngleDir(direction, 1),
                      color |-> RED, intensity |-> 90],
                     [type |-> "refract", direction |-> AngleDir(direction, 0),
                      color |-> WHITE, intensity |-> 90],
                     [type |-> "refract", direction |-> AngleDir(direction, -1),
                      color |-> BLUE, intensity |-> 90] >>
             ELSE pass
        ELSE pass

\* Fault: WHITE light is split on leaving the prism as well.
PrismSplitsAllWhite(pr, color, hit_point, direction, normal) ==
    IF color = WHITE
    THEN << [type |-> "refract", direction |-> AngleDir(direction, 1),
             color |-> RED, intensity |-> 90],
            [type |-> "refract", direction |-> AngleDir(direction, 0),
             color |-> GREEN, intensity |-> 90],
            [type |-> "refract", direction |-> AngleDir(direction, -1),
             color |-> BLUE, intensity |-> 90] >>
    ELSE << [type |-> "refract", direction |-> AngleDir(direction, 0),
             color |-> color, intensity |-> 95] >>

\* Fault: every beam is split in three, whatever its color and side; the
\* copies of a beam that should pass keep its color and direction.
PrismSplitsEveryBeam(pr, color, hit_point, direction, normal) ==
    LET is_entering == QSgn(Dot(direction, V(normal.x, normal.y))) < 0
        copy == [type |-> "refract", direction |-> AngleDir(direction, 0),
                 color |-> color, intensity |-> 95]
    IN  IF color = WHITE /\ is_entering
        THEN << [type |-> "refract", direction |-> AngleDir(direction, 1),
                 color |-> RED, intensity |-> 90],
                [type |-> "refract", direction |-> AngleDir(direction, 0),
                 color |-> GREEN, intensity |-> 90],
                [type |-> "refract", direction |-> AngleDir(direction, -1),
                 color |-> BLUE, intensity |-> 90] >>
        ELSE << copy, copy, copy >>

PrismInteractWithLight(pr, color, hit_point, direction, normal) ==
    LET is_entering == QSgn(Dot(direction, V(normal.x, normal.y))) < 0
        pass == << [type |-> "refract", direction |-> AngleDir(direction, 0),
                    color |-> color, intensity |-> 95] >>
    IN  IF color = WHITE
        THEN IF is_entering
             THEN << [type |-> "refract", direction |-> AngleDir(direction, 1),
                      color |-> RED, intensity |-> 90],
                     [type |-> "refract", direction |-> AngleDir(direction, 0),
                      color |-> GREEN, intensity |-> 90],
                     [type |-> "refract", direction |-> AngleDir(direction, -1),
                      color |-> BLUE, intensity |-> 90] >>
             ELSE pass
        ELSE pass

\* ------------------------------------------------------------------------
\* Circular surfaces (objects_colorfilter.py, objects_checkpoint.py,
\* objects_shadowcreature.py): the three intersect_with_ray bodies are the
\* same text over self.x, self.y, self.size.
\* ------------------------------------------------------------------------

\* Fault: the normal is the offset from the centre divided by the diameter.
CircleIntersectBySize(cx, cy, size, ray, ray_dir) ==
    LET center_to_ray == V(Fl(QSub(QI(cx), ray.x)), Fl(QSub(QI(cy), ray.y)))
        ray_length == QSqrt(Norm2(ray_dir))
        ray_normalized == V(Fl(QDiv(ray_dir.x, ray_length)), Fl(QDiv(ray_dir.y, ray_length)))
        projection == Fl(Dot(center_to_ray, ray_normalized))
        closest_point == V(Fl(QAdd(ray.x, QMul(ray_normalized.x, projection))),
                           Fl(QAdd(ray.y, QMul(ray_normalized.y, projection))))
        distance == QSqrt(Norm2(VSub(closest_point, VI(cx, cy))))
        radius == Q(size, 2)
        half_chord == QSqrt(QSub(QSq(radius), QSq(distance)))
        near == V(Fl(QSub(closest_point.x, QMul(ray_normalized.x, half_chord))),
                  Fl(QSub(closest_point.y, QMul(ray_normalized.y, half_chord))))
        far == V(Fl(QAdd(closest_point.x, QMul(ray_normalized.x, half_chord))),
                 Fl(QAdd(closest_point.y, QMul(ray_normalized.y, half_chord))))
        forward(pt) ==
            QSgn(QAdd(QMul(Fl(QSub(pt.x, ray.x)), ray_normalized.x),
                      QMul(Fl(QSub(pt.y, ray.y)), ray_normalized.y))) >= 0
        normal(pt) == Nrm(QDiv(QSub(pt.x, QI(cx)), QI(size)),
                          QDiv(QSub(pt.y, QI(cy)), QI(size)), QI(1))
    IN  IF QSgn(projection) < 0 THEN NoHit
        ELSE IF QLt(radius, distance) THEN NoHit
        ELSE IF forward(near) THEN Hit(near, normal(near))
        ELSE IF forward(far) THEN Hit(far, normal(far))
        ELSE NoHit

CircleIntersect(cx, cy, size, ray, ray_dir) ==
    LET center_to_ray == V(Fl(QSub(QI(cx), ray.x)), Fl(QSub(QI(cy), ray.y)))
        ray_length == QSqrt(Norm2(ray_dir))
        ray_normalized == V(Fl(QDiv(ray_dir.x, ray_length)), Fl(QDiv(ray_dir.y, ray_length)))
        projection == Fl(Dot(center_to_ray, ray_normalized))
        closest_point == V(Fl(QAdd(ray.x, QMul(ray_normalized.x, projection))),
                           Fl(QAdd(ray.y, QMul(ray_normalized.y, projection))))
        distance == QSqrt(Norm2(VSub(closest_point, VI(cx, cy))))
        radius == Q(size, 2)
        half_chord == QSqrt(QSub(QSq(radius), QSq(distance)))
        near == V(Fl(QSub(closest_point.x, QMul(ray_normalized.x, half_chord))),
                  Fl(QSub(closest_point.y, QMul(ray_normalized.y, half_chord))))
        far == V(Fl(QAdd(closest_point.x, QMul(ray_normalized.x, half_chord))),
                 Fl(QAdd(closest_point.y, QMul(ray_normalized.y, half_chord))))
        forward(pt) ==
            QSgn(QAdd(QMul(Fl(QSub(pt.x, ray.x)), ray_normalized.x),
                      QMul(Fl(QSub(pt.y, ray.y)), ray_normalized.y))) >= 0
        normal(pt) == Nrm(QDiv(QSub(pt.x, QI(cx)), radius),
                          QDiv(QSub(pt.y, QI(cy)), radius), QI(1))
    IN  IF QSgn(projection) < 0 THEN NoHit
        ELSE IF QLt(radius, distance) THEN NoHit
        ELSE IF forward(near) THEN Hit(near, normal(near))
        ELSE IF forward(far) THEN Hit(far, normal(far))
        ELSE NoHit

\* ------------------------------------------------------------------------
\* ColorFilter (objects_colorfilter.py)
\* ------------------------------------------------------------------------

available_colors == << RED, GREEN, BLUE, YELLOW, CYAN, MAGENTA, WHITE >>

IndexOf(seq, e) == CHOOSE i \in 1..Len(seq) : seq[i] = e

\* color_index is the 0-based index of the list, 0 for a color not in it
ColorFilter(x, y, color) ==
    [kind |-> "filter", x |-> x, y |-> y, color |-> color,
     color_index |-> IF \E i \in 1..Len(available_colors) : available_colors[i] = color
                     THEN IndexOf(available_colors, color) - 1 ELSE 0]

\* Fault: the color is read from the list before the index is stepped.
ColorFilterInteractLate(f) ==
    LET i == (f.color_index + 1) % Len(available_colors)
    IN  [f EXCEPT !.color_index = i, !.color = available_colors[f.color_index + 1]]

\* ColorFilter.interact
ColorFilterInteract(f) ==
    LET i == (f.color_index + 1) % Len(available_colors)
    IN  [f EXCEPT !.color_index = i, !.color = available_colors[i + 1]]

Min(a, b) == IF a < b THEN a ELSE b

FilteredColor(filter_color, color) ==
    IF filter_color = WHITE THEN color
    ELSE IF color = WHITE THEN filter_color
    ELSE IF filter_color = RED
         THEN IF color = BLUE THEN MAGENTA
              ELSE IF color = GREEN THEN YELLOW ELSE filter_color
    ELSE IF filter_color = GREEN
         THEN IF color = BLUE THEN CYAN
              ELSE IF color = RED THEN YELLOW ELSE filter_color
    ELSE IF filter_color = BLUE
         THEN IF color = RED THEN MAGENTA
              ELSE IF color = GREEN THEN CYAN ELSE filter_color
    ELSE << Min(color[1], filter_color[1]), Min(color[2], filter_color[2]),
            Min(color[3], filter_color[3]) >>

FilterInteractWithLight(f, color, hit_point, direction, normal) ==
    << [type |-> "filter", direction |-> direction,
        color |-> FilteredColor(f.color, color), intensity |-> 90] >>

\* ------------------------------------------------------------------------
\* Checkpoint (objects_checkpoint.py)
\* ------------------------------------------------------------------------

Checkpoint(x, y, required_color) ==
    [kind |-> "checkpoint", x |-> x, y |-> y, required_color |-> required_color,
     activated |-> FALSE, newly_activated |-> FALSE]

\* Fault: the tolerance is exclusive.
colors_match_strict(color1, color2, threshold) ==
    /\ Abs(color1[1] - color2[1]) < threshold
    /\ Abs(color1[2] - color2[2]) < threshold
    /\ Abs(color1[3] - color2[3]) < threshold

colors_match(color1, color2, threshold) ==
    /\ Abs(color1[1] - color2[1]) <= threshold
    /\ Abs(color1[2] - color2[2]) <= threshold
    /\ Abs(color1[3] - color2[3]) <= threshold

\* The checkpoint after interact_with_light(color, ...)
CheckpointLit(cp, color) ==
    IF colors_match(color, cp.required_color, 30) /\ ~cp.activated
    THEN [cp EXCEPT !.activated = TRUE, !.newly_activated = TRUE]
    ELSE cp

\* Fault: light of a color that does not match is stopped.
CheckpointStopsMismatch(cp, color, hit_point, direction, normal) ==
    IF colors_match(color, cp.required_color, 30)
    THEN << [type |-> "filter", direction |-> direction,
             color |-> color, intensity |-> 95] >>
    ELSE << [type |-> "absorb"] >>

\* Fault: a checkpoint that is already activated stops the light.
CheckpointStopsOnceActivated(cp, color, hit_point, direction, normal) ==
    IF cp.activated
    THEN << [type |-> "absorb"] >>
    ELSE << [type |-> "filter", direction |-> direction,
             color |-> color, intensity |-> 95] >>

CheckpointInteractWithLight(cp, color, hit_point, direction, normal) ==
    << [type |-> "filter", direction |-> direction,
        color |-> color, intensity |-> 95] >>

\* Checkpoint.update (the pulse timer is rendering state)
CheckpointUpdate(cp) ==
    IF cp.newly_activated THEN [cp EXCEPT !.newly_activated = FALSE] ELSE cp

\* ------------------------------------------------------------------------
\* ShadowCreature (objects_shadowcreature.py)
\* ------------------------------------------------------------------------

ShadowCreature(x, y, path, speed) ==
    [kind |-> "shadow", x |-> x, y |-> y, path |-> path, speed |-> speed,
     current_target |-> 0]

\* ShadowCreature.update (rect, tentacles and pulse are rendering state); the
\* position is integral as long as the steps are: x and y are kept as integers
\* and a step's components are rounded to the nearest integer.
Round(q) == (2 * q.n + q.d) \div (2 * q.d)

\* Fault: the next target is taken only at the target itself.
ShadowUpdateAtTarget(sc) ==
    LET target == sc.path[sc.current_target + 1]
        dx == target[1] - sc.x
        dy == target[2] - sc.y
        distance == QSqrt(QI(dx * dx + dy * dy))
    IN  IF Len(sc.path) > 1
        THEN IF distance = QI(0)
             THEN [sc EXCEPT !.current_target = (sc.current_target + 1) % Len(sc.path)]
             ELSE [sc EXCEPT
                     !.x = sc.x + Round(QMul(QDiv(QI(dx), distance), QI(sc.speed))),
                     !.y = sc.y + Round(QMul(QDiv(QI(dy), distance), QI(sc.speed)))]
        ELSE sc

ShadowUpdate(sc) ==
    LET target == sc.path[sc.current_target + 1]
        dx == target[1] - sc.x
        dy == target[2] - sc.y
        distance == QSqrt(QI(dx * dx + dy * dy))
    IN  IF Len(sc.path) > 1
        THEN IF QLt(distance, QI(sc.speed))
             THEN [sc EXCEPT !.current_target = (sc.current_target + 1) % Len(sc.path)]
             ELSE [sc EXCEPT
                     !.x = sc.x + Round(QMul(QDiv(QI(dx), distance), QI(sc.speed))),
                     !.y = sc.y + Round(QMul(QDiv(QI(dy), distance), QI(sc.speed)))]
        ELSE sc

\* Fault: the creature lets the light through.
ShadowPassesLight(sc, color, hit_point, direction, normal) ==
    << [type |-> "filter", direction |-> direction,
        color |-> color, intensity |-> 95] >>

ShadowInteractWithLight(sc, color, hit_point, direction, normal) ==
    << [type |-> "absorb"] >>

\* ------------------------------------------------------------------------
\* The surface contract as LightBeam.update calls it
\* ------------------------------------------------------------------------

\* The diameter a circular surface gives its collision circle.
CircleSize(obj) ==
    CASE obj.kind = "filter" -> FILTER_SIZE
      [] obj.kind = "checkpoint" -> CHECKPOINT_SIZE
      [] obj.kind = "shadow" -> SHADOW_CREATURE_SIZE

IntersectWithRay(obj, ray, dir) ==
    CASE obj.kind = "mirror" -> MirrorIntersect(obj, ray, dir)
      [] obj.kind = "prism" -> PrismIntersect(obj, ray, dir)
      [] OTHER -> CircleIntersect(obj.x, obj.y, CircleSize(obj), ray, dir)

InteractWithLight(obj, color, hit_point, direction, normal) ==
    CASE obj.kind = "mirror" -> MirrorInteractWithLight(obj, color, hit_point, direction, normal)
      [] obj.kind = "prism" -> PrismInteractWithLight(obj, color, hit_point, direction, normal)
      [] obj.kind = "filter" -> FilterInteractWithLight(obj, color, hit_point, direction, normal)
      [] obj.kind = "checkpoint" ->
            CheckpointInteractWithLight(obj, color, hit_point, direction, normal)
      [] obj.kind = "shadow" -> ShadowInteractWithLight(obj, color, hit_point, direction, normal)

\* Fault: a lit ColorFilter steps to its next color, as if clicked.
SurfaceLitCycles(obj, color) ==
    IF obj.kind = "checkpoint" THEN CheckpointLit(obj, color)
    ELSE IF obj.kind = "filter" THEN ColorFilterInteract(obj)
    ELSE obj

\* The surface after interact_with_light: only a Checkpoint writes to itself.
SurfaceLit(obj, color) ==
    IF obj.kind = "checkpoint" THEN CheckpointLit(obj, color) ELSE obj

\* ------------------------------------------------------------------------
\* LightBeam (light.py)
\* ------------------------------------------------------------------------

VARIABLES
    game_objects,   \* Game.game_objects: the ordered surface collection
    beams,          \* every LightBeam constructed so far; beams[1] is the root
    stack,          \* the active calls of LightBeam.update, innermost last
    frame,          \* number of completed root updates
    call,           \* the latest invocation of a surface's interact_with_light
    sounds,         \* calls of play_checkpoint_activation made by Game.update
    raised,         \* an exception has left Game.update: the frame loop is over
    game            \* Game.state and the progression through the levels

vars == << game_objects, beams, stack, frame, call, sounds, raised, game >>

\* Game.__init__ and LevelManager.__init__: the menu, no level loaded
\* (level_number = 0), no level completed, no transition pending.
NewGame ==
    [state |-> "menu", current_level |-> 1, max_level_reached |-> 1,
     level_number |-> 0, completed |-> {}, level_complete_time |-> FALSE]

\* LightBeam.__init__ ; parent = 0 is None
LightBeam(start, direction, color, parent, intensity, reflection_count) ==
    [start |-> start, direction |-> direction, color |-> color,
     intensity |-> intensity, parent |-> parent,
     reflection_count |-> reflection_count,
     child_beams |-> << >>, segments |-> << >>, active |-> TRUE,
     end_ |-> VAdd(start, VScale(direction, QI(BEAM_MAX_LENGTH)))]

Segment(p1, p2, color, intensity) ==
    [p1 |-> p1, p2 |-> p2, color |-> color, intensity |-> intensity]

\* Fault: `distance <= min_distance`, so that the later of two surfaces at
\* the same distance is kept.
CloserOrEqual(prev, r, i, ray, dir) ==
    IF r.hit /\ (~prev.hit \/ ~Nearer(prev.p, r.p, ray, dir))
    THEN [hit |-> TRUE, obj |-> i, p |-> r.p, normal |-> r.normal]
    ELSE prev

\* One iteration of the loop over game_objects of update: the intersection r
\* with object i replaces the closest hit so far only when strictly nearer.
Closer(prev, r, i, ray, dir) ==
    IF r.hit /\ (~prev.hit \/ Nearer(r.p, prev.p, ray, dir))
    THEN [hit |-> TRUE, obj |-> i, p |-> r.p, normal |-> r.normal]
    ELSE prev

\* The loop over game_objects of update: the nearest hit among objects 1..i.
RECURSIVE NearestHit(_, _, _, _)
NearestHit(objs, ray, dir, i) ==
    IF i = 0 THEN [hit |-> FALSE]
    ELSE Closer(NearestHit(objs, ray, dir, i - 1),
                IntersectWithRay(objs[i], ray, dir), i, ray, dir)

\* Fault: the budget test is off by one.
BudgetExceeded(b) == b.reflection_count > MAX_REFLECTIONS

BudgetExhausted(b) == b.reflection_count >= MAX_REFLECTIONS

NoCall == [obj |-> 0]

\* hit_object.interact_with_light(current_color, hit_point, self.direction,
\* normal) on surface i of objs, with what it returned.
Invoke(objs, i, color, hit_point, direction, normal) ==
    [obj |-> i, surface |-> objs[i], color |-> color, hit_point |-> hit_point,
     direction |-> direction, normal |-> normal,
     results |-> InteractWithLight(objs[i], color, hit_point, direction, normal)]

\* `ray_dir[0] / ray_length` of a circular surface's intersect_with_ray
\* raises ZeroDivisionError for a beam whose direction is (0, 0); the segment
\* test of Mirror and Prism returns None for it (den == 0).
ZeroDivision(objs, b) ==
    /\ b.active
    /\ ~BudgetExhausted(b)
    /\ Norm2(b.direction) = QI(0)
    /\ \E i \in 1..Len(objs) : objs[i].kind \in {"filter", "checkpoint", "shadow"}

\* Fault: update keeps what the previous call left.
NotCleared(bs, id) == bs

\* update's first statements: the segments and the children of beam id are
\* dropped, the former children deactivated.
Cleared(bs, id) ==
    [j \in 1..Len(bs) |->
        IF j = id THEN [bs[id] EXCEPT !.segments = << >>, !.child_beams = << >>]
        ELSE IF \E k \in 1..Len(bs[id].child_beams) : bs[id].child_beams[k] = j
             THEN [bs[j] EXCEPT !.active = FALSE]
             ELSE bs[j]]

\* update when nothing is hit or the budget is spent: one segment to end.
UpdateToEnd(bs, objs, id, to_end) ==
    [beams |-> [Cleared(bs, id) EXCEPT ![id].segments = Append(@, to_end)],
     objects |-> objs, results |-> << >>,
     hit_point |-> bs[id].start, call |-> NoCall]

\* update on a hit: one segment to the hit point, and the surface's call.
UpdateOnHit(bs, objs, id, to_hit, obj, hit_point, lit, inv) ==
    [beams |-> [Cleared(bs, id) EXCEPT ![id].segments = Append(@, to_hit)],
     objects |-> [objs EXCEPT ![obj] = lit],
     results |-> inv.results,
     hit_point |-> hit_point, call |-> inv]

\* Fault: the surfaces are queried before the budget is looked at, and a
\* beam out of budget stops at the surface it hits (spawning nothing).
UpdateFromQueriesFirst(bs, objs, id, b, h) ==
    IF ~b.active
    THEN [beams |-> bs, objects |-> objs, results |-> << >>,
          hit_point |-> b.start, call |-> NoCall]
    ELSE IF ~h.hit
    THEN UpdateToEnd(bs, objs, id, Segment(b.start, b.end_, b.color, b.intensity))
    ELSE [UpdateOnHit(bs, objs, id, Segment(b.start, h.p, b.color, b.intensity),
                      h.obj, h.p, SurfaceLit(objs[h.obj], b.color),
                      Invoke(objs, h.obj, b.color, h.p, b.direction, h.normal))
          EXCEPT !.results = IF BudgetExhausted(b) THEN << >> ELSE @]

UpdateFrom(bs, objs, id, b, h) ==
    IF ~b.active
    THEN [beams |-> bs, objects |-> objs, results |-> << >>,
          hit_point |-> b.start, call |-> NoCall]
    ELSE IF BudgetExhausted(b) \/ ~h.hit
    THEN UpdateToEnd(bs, objs, id, Segment(b.start, b.end_, b.color, b.intensity))
    ELSE UpdateOnHit(bs, objs, id, Segment(b.start, h.p, b.color, b.intensity),
                     h.obj, h.p, SurfaceLit(objs[h.obj], b.color),
                     Invoke(objs, h.obj, b.color, h.p, b.direction, h.normal))

\* The straight-line part of update(game_objects) on beam id, up to the loop
\* over the interaction results: which results the loop will run over, and
\* the beams and surfaces as update has left them by then.
UpdateHead(bs, objs, id) ==
    UpdateFrom(bs, objs, id, bs[id],
               NearestHit(objs, bs[id].start, bs[id].direction, Len(objs)))

\* Fault: the loop runs over the results from the last to the first.
CallLastFirst(id, u) ==
    [beam |-> id,
     results |-> [k \in 1..Len(u.results) |-> u.results[Len(u.results) + 1 - k]],
     hit_point |-> u.hit_point]

Call(id, u) == [beam |-> id, results |-> u.results, hit_point |-> u.hit_point]

Top == stack[Len(stack)]

Idle == stack = << >>

\* obj.update() of Game.update's loop over game_objects
ObjectUpdate(obj) ==
    CASE obj.kind = "checkpoint" -> CheckpointUpdate(obj)
      [] obj.kind = "shadow" -> ShadowUpdate(obj)
      [] OTHER -> obj

\* ------------------------------------------------------------------------
\* Scenes: the surfaces a level places and the root beam the player casts
\* ------------------------------------------------------------------------

\* Largest number of surfaces in a scene, and of frames the driver runs.
MaxObjects == 2
MaxFrames == 2

\* The places of a scene, all on the line y = 100 of the root beam. Mirrors
\* and prisms stand at the first two, near the root; the circular surfaces
\* stand at the last two, one behind the other, out of reach of a prism's
\* rotated rays (whose chords in a circle have irrational ends).
Places == << <<100, 100>>, <<200, 100>>, <<400, 100>>, <<500, 100>> >>

SegmentsAt(x, y) == { Mirror(x, y, 45), Mirror(x, y, 90), Prism(x, y) }

CirclesAt(x, y) ==
    { ColorFilter(x, y, CYAN), Checkpoint(x, y, RED),
      ShadowCreature(x, y + 30, << <<x, y>>, <<x, y + 60>> >>, 30) }

SurfacesAt(p) ==
    IF p <= 2 THEN SegmentsAt(Places[p][1], Places[p][2])
    ELSE CirclesAt(Places[p][1], Places[p][2])

RECURSIVE Ascending(_)
Ascending(S) ==
    IF S = {} THEN << >>
    ELSE LET m == CHOOSE x \in S : \A y \in S : x <= y
         IN  << m >> \o Ascending(S \ {m})

Reverse(seq) == [i \in 1..Len(seq) |-> seq[Len(seq) + 1 - i]]

\* A scene has at most one surface at a place; the collection lists them
\* from the nearest place to the farthest or the other way round.
Scenes ==
    UNION { { [i \in 1..Len(order) |-> f[order[i]]] :
                f \in { g \in [P -> UNION { SurfacesAt(p) : p \in P }] :
                          \A p \in P : g[p] \in SurfacesAt(p) },
                order \in { Ascending(P), Reverse(Ascending(P)) } } :
            P \in { R \in SUBSET (1..Len(Places)) : Cardinality(R) <= MaxObjects } }

\* Game.create_light_beam builds WHITE roots; colored roots stand for beams
\* a test or another caller constructs.
Roots ==
    { LightBeam(VI(0, 100), VI(1, 0), WHITE, 0, 100, 0),
      LightBeam(VI(0, 100), VI(1, 0), RED, 0, 100, 0),
      LightBeam(VI(150, 100), VI(1, 0), WHITE, 0, 100, 0) }

Init ==
    /\ game_objects \in Scenes
    /\ \E root \in Roots : beams = << root >>
    /\ stack = << >>
    /\ frame = 0
    /\ call = NoCall
    /\ sounds = 0
    /\ raised = FALSE
    /\ game = NewGame

\* update is entered on beam id: its straight-line part u has run, and the
\* loop over u's results is pushed on the frames stk of the calls above it.
Enter(id, u, stk) ==
    /\ beams' = u.beams
    /\ game_objects' = u.objects
    /\ stack' = Append(stk, Call(id, u))
    /\ call' = IF u.call.obj # 0 THEN u.call ELSE call
    /\ UNCHANGED << sounds, raised, game >>

\* Game.update: `for beam in self.light_beams: beam.update(self.game_objects)`
\* enters update on the root beam.
BeginUpdate ==
    /\ Idle
    /\ frame < MaxFrames
    /\ beams # << >>
    /\ ~raised
    /\ ~ZeroDivision(game_objects, beams[1])
    /\ Enter(1, UpdateHead(beams, game_objects, 1), << >>)
    /\ UNCHANGED frame

\* Fault: the child's intensity is the parent's scaled by the result's.
ChildOfFaded(parent, r, hit_point) ==
    LightBeam(hit_point, r.direction, r.color, parent,
              (beams[parent].intensity * r.intensity) \div 100,
              beams[parent].reflection_count + 1)

\* The child beam update constructs for result r of the surface's call.
ChildOf(parent, r, hit_point) ==
    LightBeam(hit_point, r.direction, r.color, parent, r.intensity,
              beams[parent].reflection_count + 1)

\* One iteration of `for result in interaction` with a reflect, refract or
\* filter result: construct the child, append it, and enter child.update.
SpawnChild ==
    /\ ~Idle
    /\ Top.results # << >>
    /\ Head(Top.results).type \in {"reflect", "refract", "filter"}
    /\ Enter(Len(beams) + 1,
             UpdateHead(Append([beams EXCEPT ![Top.beam].child_beams =
                                   Append(@, Len(beams) + 1)],
                               ChildOf(Top.beam, Head(Top.results), Top.hit_point)),
                        game_objects, Len(beams) + 1),
             [stack EXCEPT ![Len(stack)].results = Tail(@)])
    /\ UNCHANGED frame

\* One iteration with an absorb result: pass.
Absorb ==
    /\ ~Idle
    /\ Top.results # << >>
    /\ Head(Top.results).type = "absorb"
    /\ stack' = [stack EXCEPT ![Len(stack)].results = Tail(@)]
    /\ UNCHANGED << beams, game_objects, frame, call, sounds, raised, game >>

\* `if isinstance(obj, Checkpoint) and obj.newly_activated`, which Game.update
\* evaluates on obj right after obj.update().
PlaysActivation(obj) == obj.kind = "checkpoint" /\ obj.newly_activated

\* update returns. When the root's update returns, Game.update goes on to
\* `for obj in self.game_objects: obj.update()` and, for each object in
\* turn, to the test that plays the activation sound.
Return ==
    /\ ~Idle
    /\ Top.results = << >>
    /\ stack' = SubSeq(stack, 1, Len(stack) - 1)
    /\ IF Len(stack) = 1
       THEN /\ game_objects' = [i \in 1..Len(game_objects) |-> ObjectUpdate(game_objects[i])]
            /\ sounds' = sounds + Cardinality({ i \in 1..Len(game_objects) :
                                                  PlaysActivation(game_objects'[i]) })
            /\ frame' = frame + 1
       ELSE UNCHANGED << game_objects, sounds, frame >>
    /\ UNCHANGED << beams, call, raised, game >>

Next == BeginUpdate \/ SpawnChild \/ Absorb \/ Return

Spec == Init /\ [][Next]_vars

\* Some step is possible unless the driver has run its last frame.
Stopped == Idle /\ frame >= MaxFrames

\* update is one synchronous recursion: a step that can be taken is taken.
\* This is weak fairness of Next, written with ENABLED <<Next>>_vars spelled
\* out as ~Stopped.
FairSpec == Spec /\ ([]<><<Next>>_vars \/ []<>Stopped)

\* ------------------------------------------------------------------------
\* One surface under direct calls: interact_with_light with any color,
\* direction and normal, and update(), in any order
\* ------------------------------------------------------------------------

\* Colors a beam can carry, and reds at and just past the checkpoint's
\* tolerance.
LightColors ==
    { available_colors[i] : i \in 1..Len(available_colors) }
    \cup { <<225, 0, 0>>, <<224, 0, 0>>, <<255, 30, 30>>, <<255, 31, 0>> }

LightDirections == { VI(1, 0), VI(0, 1), V(Q(3, 5), Q(4, 5)) }

LightNormals ==
    { Nrm(QI(-1), QI(0), QI(1)), Nrm(QI(0), QI(1), QI(1)), Nrm(QI(-40), QI(-20), QI(2000)) }

Surfaces ==
    { ColorFilter(400, 100, available_colors[i]) : i \in 1..Len(available_colors) }
    \cup { Checkpoint(400, 100, RED), Checkpoint(400, 100, CYAN), Prism(100, 100),
           Mirror(100, 100, 45),
           ShadowCreature(400, 130, << <<400, 100>>, <<400, 160>> >>, 30) }

SurfaceInit ==
    /\ \E s \in Surfaces : game_objects = << s >>
    /\ beams = << >>
    /\ stack = << >>
    /\ frame = 0
    /\ call = NoCall
    /\ sounds = 0
    /\ raised = FALSE
    /\ game = NewGame

\* surface.interact_with_light(color, hit_point, direction, normal)
Light(color, direction, normal) ==
    /\ call' = Invoke(game_objects, 1, color,
                      VI(game_objects[1].x, game_objects[1].y), direction, normal)
    /\ game_objects' = << SurfaceLit(game_objects[1], color) >>
    /\ UNCHANGED << beams, stack, frame, sounds, raised, game >>

LightOf(color) ==
    \E direction \in LightDirections, normal \in LightNormals :
        Light(color, direction, normal)

AnyLight == \E color \in LightColors : LightOf(color)

\* surface.update()
Tick ==
    /\ frame < MaxFrames
    /\ game_objects' = << ObjectUpdate(game_objects[1]) >>
    /\ frame' = frame + 1
    /\ UNCHANGED << beams, stack, call, sounds, raised, game >>

SurfaceNext == AnyLight \/ Tick

SurfaceSpec == SurfaceInit /\ [][SurfaceNext]_vars

\* ------------------------------------------------------------------------
\* One object under the player's clicks, the frame's update() and, for a
\* mirror, direct ray queries, in any order
\* ------------------------------------------------------------------------

\* obj.interact() as Game.interact_with_objects calls it on an object that
\* has the method: Mirror and ColorFilter override it, Prism inherits
\* GameObject.interact (pass).
ObjectInteract(obj) ==
    CASE obj.kind = "mirror" -> MirrorInteract(obj)
      [] obj.kind = "filter" -> ColorFilterInteract(obj)
      [] OTHER -> obj

\* Patrols whose steps stay on the integer grid: along an axis from a start
\* off the first target, along a 3-4-5 diagonal, around a square, from a
\* start beside the path, and the creatures of levels 5 and 8 that patrol
\* between two points.
Patrols ==
    { ShadowCreature(0, 4, << <<0, 0>>, <<0, 10>> >>, 3),
      ShadowCreature(0, 0, << <<0, 0>>, <<30, 40>> >>, 5),
      ShadowCreature(0, 0, << <<0, 0>>, <<0, 8>>, <<8, 8>>, <<8, 0>> >>, 4),
      ShadowCreature(3, 0, << <<0, 4>>, <<0, 10>> >>, 5),
      ShadowCreature(700, 360, << <<700, 200>>, <<700, 500>> >>, 3),
      ShadowCreature(350, 500, << <<350, 500>>, <<600, 500>> >>, 5) }

\* The mirror angles, filter colors and patrols of the levels' kind.
Objects ==
    { Mirror(100, 100, 0), Mirror(100, 100, 45), Mirror(100, 100, 135) }
    \cup { ColorFilter(400, 100, available_colors[i]) : i \in 1..Len(available_colors) }
    \cup { Prism(100, 100), Checkpoint(400, 100, RED) }
    \cup Patrols

\* Ray origins about the mirror at (100, 100): its centre, points to its
\* left, right and above, and points of the lines of the upright and of the
\* level mirror; and ray directions.
RayOrigins ==
    { VI(100, 100), VI(0, 100), VI(100, 0), VI(200, 100), VI(100, 90), VI(90, 100) }

RayDirections == { VI(1, 0), VI(0, 1), V(Q(3, 5), Q(4, 5)) }

ObjectInit ==
    /\ \E obj \in Objects : game_objects = << obj >>
    /\ beams = << >>
    /\ stack = << >>
    /\ frame = 0
    /\ call = NoCall
    /\ sounds = 0
    /\ raised = FALSE
    /\ game = NewGame

\* The record of a direct call of `method` on the object.
Called(method) == [obj |-> 1, method |-> method, surface |-> game_objects[1]]

\* Clicks are counted in runs: a run of clicks in a row, with no other call
\* in between, is followed up to a mirror's full turn, 360 / rotation_speed
\* clicks; the next click begins a new run.
FullTurn == 360 \div rotation_speed

InRun == call.obj # 0 /\ call.method = "interact" /\ call.clicks < FullTurn

\* obj.interact(): the record keeps the object as it was when the run of
\* clicks began, and the number of clicks of the run.
Interact ==
    /\ game_objects[1].kind \in {"mirror", "filter", "prism"}
    /\ game_objects' = << ObjectInteract(game_objects[1]) >>
    /\ call' = [obj |-> 1, method |-> "interact", surface |-> game_objects[1],
                since |-> IF InRun THEN call.since ELSE game_objects[1],
                clicks |-> IF InRun THEN call.clicks + 1 ELSE 1]
    /\ UNCHANGED << beams, stack, frame, sounds, raised, game >>

\* obj.update()
Update ==
    /\ game_objects' = << ObjectUpdate(game_objects[1]) >>
    /\ call' = Called("update")
    /\ UNCHANGED << beams, stack, frame, sounds, raised, game >>

\* mirror.intersect_with_ray(ray_x, ray_y, ray_dir)
Query(ray, dir) ==
    /\ game_objects[1].kind = "mirror"
    /\ call' = [obj |-> 1, method |-> "intersect_with_ray", surface |-> game_objects[1],
                ray |-> ray, direction |-> dir,
                result |-> MirrorIntersect(game_objects[1], ray, dir)]
    /\ UNCHANGED << game_objects, beams, stack, frame, sounds, raised, game >>

AnyQuery == \E ray \in RayOrigins, dir \in RayDirections : Query(ray, dir)

ObjectNext == Interact \/ Update \/ AnyQuery

ObjectSpec == ObjectInit /\ [][ObjectNext]_vars

\* A creature alone under the frame loop, which calls update() on it in
\* every frame: an update that can change something is not put off forever.
\* PatrolInit is the state after the level has built the creature.
PatrolInit ==
    /\ \E sc \in Patrols : game_objects = << sc >>
    /\ beams = << >>
    /\ stack = << >>
    /\ frame = 0
    /\ call = NoCall
    /\ sounds = 0
    /\ raised = FALSE
    /\ game = NewGame

\* update() would leave everything as it is.
Still == ObjectUpdate(game_objects[1]) = game_objects[1] /\ call = Called("update")

\* This is weak fairness of Update, written with ENABLED <<Update>>_vars
\* spelled out as ~Still.
PatrolSpec == PatrolInit /\ [][Update]_vars /\ ([]<><<Update>>_vars \/ []<>Still)

\* ------------------------------------------------------------------------
\* The game's states and the progression through the levels (game.py,
\* level.py, ui.py)
\* ------------------------------------------------------------------------

\* LevelManager.create_levels: the first surface of each level and its
\* checkpoints. The level's other surfaces (mirrors, prisms, filters,
\* creatures) are surfaces check_level_complete skips like the first.
Levels ==
    << << Mirror(640, 360, 45), Checkpoint(1000, 200, WHITE) >>,
       << Mirror(500, 200, 45), Checkpoint(1000, 500, WHITE) >>,
       << Prism(640, 360), Checkpoint(1000, 260, RED),
          Checkpoint(1000, 360, GREEN), Checkpoint(1000, 460, BLUE) >>,
       << ColorFilter(500, 360, RED), Checkpoint(800, 100, RED) >>,
       << Mirror(500, 200, 45), Checkpoint(1000, 360, WHITE) >>,
       << Prism(400, 360), Checkpoint(1000, 200, RED), Checkpoint(1000, 520, BLUE) >>,
       << Mirror(300, 100, 45), Checkpoint(900, 700, WHITE) >>,
       << Mirror(500, 200, 45), Checkpoint(800, 500, WHITE) >>,
       << Prism(400, 360), Checkpoint(1000, 160, RED),
          Checkpoint(1000, 360, GREEN), Checkpoint(1000, 560, BLUE) >>,
       << Prism(300, 360), Checkpoint(1100, 100, RED),
          Checkpoint(1100, 360, GREEN), Checkpoint(1100, 620, BLUE) >> >>

\* [obj for obj in self.game_objects if isinstance(obj, Checkpoint)]
Checkpoints(objs) == { i \in 1..Len(objs) : objs[i].kind = "checkpoint" }

\* Fault: one activated checkpoint completes the level.
check_level_complete_any(objs) ==
    /\ \E i \in Checkpoints(objs) : objs[i].activated
    /\ Cardinality(Checkpoints(objs)) > 0

check_level_complete(objs) ==
    /\ \A i \in Checkpoints(objs) : objs[i].activated
    /\ Cardinality(Checkpoints(objs)) > 0

\* Game.handle_level_complete
handle_level_complete(g) ==
    [g EXCEPT !.completed = @ \cup {g.level_number},
              !.state = "level_complete",
              !.level_complete_time = TRUE]

\* LevelManager.advance_level
advance_level(g) ==
    IF g.current_level < MAX_LEVEL
    THEN [g EXCEPT !.current_level = g.current_level + 1,
                   !.max_level_reached =
                       IF g.current_level + 1 > g.max_level_reached
                       THEN g.current_level + 1 ELSE g.max_level_reached]
    ELSE g

\* LevelManager.set_level: whether the level may be set
set_level(g, level_number) ==
    /\ 1 <= level_number
    /\ level_number <= MAX_LEVEL
    /\ level_number <= g.max_level_reached

\* Game.load_level(level_number) in game g: the level's surfaces are built
\* anew and the light beams dropped.
load_level(g, level_number) ==
    /\ game' = [g EXCEPT !.level_number = level_number]
    /\ game_objects' = Levels[level_number]
    /\ beams' = << >>
    /\ UNCHANGED << stack, frame, call, sounds, raised >>

GameInit ==
    /\ game_objects = << >>
    /\ beams = << >>
    /\ stack = << >>
    /\ frame = 0
    /\ call = NoCall
    /\ sounds = 0
    /\ raised = FALSE
    /\ game = NewGame

\* The menu's "Start Game" button: Game.start_game
start_game ==
    /\ game.state = "menu"
    /\ load_level([game EXCEPT !.state = "playing"], 1)

\* The menu's "Level Select" button: UI.show_level_select
show_level_select ==
    /\ game.state = "menu"
    /\ game' = [game EXCEPT !.state = "level_select"]
    /\ UNCHANGED << game_objects, beams, stack, frame, call, sounds, raised >>

\* A level button of the level select screen: UI.select_level, behind the
\* button's own test of max_level_reached.
select_level(level_number) ==
    /\ game.state = "level_select"
    /\ level_number <= game.max_level_reached
    /\ set_level(game, level_number)
    /\ load_level([game EXCEPT !.current_level = level_number, !.state = "playing"],
                  level_number)

AnyLevelSelected == \E level_number \in 1..MAX_LEVEL : select_level(level_number)

\* "Back" of the level select screen and "Main Menu" of the pause menu:
\* UI.return_to_menu
return_to_menu ==
    /\ game.state \in {"level_select", "paused"}
    /\ game' = [game EXCEPT !.state = "menu"]
    /\ UNCHANGED << game_objects, beams, stack, frame, call, sounds, raised >>

\* K_ESCAPE while playing
Pause ==
    /\ game.state = "playing"
    /\ game' = [game EXCEPT !.state = "paused"]
    /\ UNCHANGED << game_objects, beams, stack, frame, call, sounds, raised >>

\* "Resume" of the pause menu: UI.resume_game
resume_game ==
    /\ game.state = "paused"
    /\ game' = [game EXCEPT !.state = "playing"]
    /\ UNCHANGED << game_objects, beams, stack, frame, call, sounds, raised >>

\* "Restart Level" of the pause menu (UI.restart_level) and K_r while
\* playing
restart_level ==
    /\ game.state \in {"paused", "playing"}
    /\ load_level([game EXCEPT !.state = "playing"], game.level_number)

\* The light of one frame on checkpoint cp: of its required color where the
\* beams that reach it match, of another color where they do not.
FrameLight(cp, matching) ==
    IF matching THEN cp.required_color
    ELSE IF cp.required_color = RED THEN BLUE ELSE RED

\* The surfaces after the beams' updates of one frame, which reach the
\* checkpoints lit, and the loop of obj.update().
FrameObjects(objs, lit, matching) ==
    [i \in 1..Len(objs) |->
        ObjectUpdate(IF i \in lit
                     THEN CheckpointLit(objs[i], FrameLight(objs[i], i \in matching))
                     ELSE objs[i])]

\* Game.update while playing, objs being the surfaces as the frame's light
\* and updates left them. The check_level_transition that ends the same
\* call finds the delay not yet elapsed.
GameUpdate(objs) ==
    /\ game_objects' = objs
    /\ game' = IF check_level_complete(objs) THEN handle_level_complete(game) ELSE game
    /\ UNCHANGED << beams, stack, frame, call, sounds, raised >>

\* One frame while playing; which checkpoints the light reaches, and with
\* which color, is the player's doing.
Frame ==
    /\ game.state = "playing"
    /\ \E lit \in SUBSET Checkpoints(game_objects) :
           \E matching \in SUBSET lit :
               GameUpdate(FrameObjects(game_objects, lit, matching))

\* Game.check_level_transition once the delay has elapsed, called by
\* Game.update in every frame and on any key or click of the level complete
\* screen.
check_level_transition ==
    /\ game.state = "level_complete"
    /\ game.level_complete_time
    /\ IF game.level_number + 1 <= MAX_LEVEL
       THEN load_level([advance_level(game) EXCEPT !.state = "playing",
                                                   !.level_complete_time = FALSE],
                       game.level_number + 1)
       ELSE /\ game' = [game EXCEPT !.state = "game_over", !.level_complete_time = FALSE]
            /\ UNCHANGED << game_objects, beams, stack, frame, call, sounds, raised >>

\* Any key or click of the game over screen
LeaveGameOver ==
    /\ game.state = "game_over"
    /\ game' = [game EXCEPT !.state = "menu"]
    /\ UNCHANGED << game_objects, beams, stack, frame, call, sounds, raised >>

GameNext ==
    \/ start_game
    \/ show_level_select
    \/ AnyLevelSelected
    \/ return_to_menu
    \/ Pause
    \/ resume_game
    \/ restart_level
    \/ Frame
    \/ check_level_transition
    \/ LeaveGameOver

GameSpec == GameInit /\ [][GameNext]_vars

\* ------------------------------------------------------------------------
\* The beam tree
\* ------------------------------------------------------------------------

\* Beam id belongs to the root's current tree (beams of earlier frames stay
\* in `beams` but are no longer anybody's child).
RECURSIVE InTree(_)
InTree(id) ==
    IF id = 1 THEN TRUE
    ELSE LET p == beams[id].parent
         IN  /\ \E k \in 1..Len(beams[p].child_beams) : beams[p].child_beams[k] = id
             /\ InTree(p)

Tree == { id \in 1..Len(beams) : InTree(id) }

Leaves == { id \in Tree : beams[id].child_beams = << >> }

LeafSegments == UNION { { <<id, k>> : k \in 1..Len(beams[id].segments) } : id \in Leaves }

\* The root's update has returned at least once and none is running.
Traced == Idle /\ frame >= 1

\* The segment runs the beam's whole length: from its start to start +
\* direction * BEAM_MAX_LENGTH, the direction being a unit vector.
FullLength(b) ==
    /\ Len(b.segments) = 1
    /\ b.segments[1].p1 = b.start
    /\ b.segments[1].p2 = VAdd(b.start, VScale(b.direction, QI(BEAM_MAX_LENGTH)))
    /\ Norm2(b.direction) = QI(1)

\* d turned by k * 0.1 radians
Turned(d, k) ==
    V(QSub(QMul(d.x, Cos01), QMul(d.y, QMul(QI(k), Sin01))),
      QAdd(QMul(d.x, QMul(QI(k), Sin01)), QMul(d.y, Cos01)))

\* ------------------------------------------------------------------------
\* Properties of the tracer
\* ------------------------------------------------------------------------

\* C1: every update that has started returns, and no beam ever constructed
\* has a reflection_count above MAX_REFLECTIONS (nor is the recursion ever
\* deeper than MAX_REFLECTIONS + 1 calls), whatever the surfaces, two facing
\* parallel mirrors included.
C1_WithinBudget ==
    /\ \A id \in 1..Len(beams) : beams[id].reflection_count <= MAX_REFLECTIONS
    /\ Len(stack) <= MAX_REFLECTIONS + 1

C1_TerminatesWithinBudget == [](C1_WithinBudget) /\ (~Idle ~> Idle)

\* Two facing mirrors, a root between them: the chain of reflections has
\* been cut at the budget and the update has returned.
C1_Witness ==
    /\ Traced
    /\ Len(game_objects) = 2
    /\ \A i \in 1..2 : game_objects[i].kind = "mirror" /\ game_objects[i].angle = 90
    /\ \E id \in Tree : /\ beams[id].reflection_count = MAX_REFLECTIONS
                        /\ FullLength(beams[id])

\* C2: the tree never has more than (MAX_REFLECTIONS + 1) * 3 segments on
\* beams without children.
C2_LeafSegmentsBounded == Cardinality(LeafSegments) <= (MAX_REFLECTIONS + 1) * 3

\* A traced tree whose root was split by a prism: three leaf segments.
C2_Witness ==
    /\ Traced
    /\ Len(beams[1].child_beams) = 3
    /\ Cardinality(LeafSegments) = 3

\* A WHITE root whose nearest hit is the only surface, a prism.
LonePrismEntered ==
    /\ Traced
    /\ Len(game_objects) = 1
    /\ game_objects[1].kind = "prism"
    /\ beams[1].color = WHITE
    /\ NearestHit(game_objects, beams[1].start, beams[1].direction, 1).hit

\* C3: a WHITE root entering a lone prism gives exactly three leaves, in
\* order RED, GREEN, BLUE, each with one segment of the maximum beam length,
\* their directions the root's turned by +0.1, 0 and -0.1 radians.
C3_LonePrismSpectrum ==
    LonePrismEntered =>
        \E r, g, b \in Leaves :
            /\ r < g /\ g < b
            /\ Leaves = {r, g, b}
            /\ beams[r].color = RED /\ beams[g].color = GREEN /\ beams[b].color = BLUE
            /\ beams[r].direction = Turned(beams[1].direction, 1)
            /\ beams[g].direction = beams[1].direction
            /\ beams[b].direction = Turned(beams[1].direction, -1)
            /\ \A l \in {r, g, b} : FullLength(beams[l])

C3_Witness == LonePrismEntered /\ Cardinality(Leaves) = 3

\* The scenario of C4: one mirror at (100, 100) turned by 45 degrees, the
\* root cast from (0, 100) along (1, 0).
MirrorScenario ==
    /\ Traced
    /\ game_objects = << Mirror(100, 100, 45) >>
    /\ beams[1].start = VI(0, 100)
    /\ beams[1].direction = VI(1, 0)

\* C4: the root has the one segment (0,100)-(100,100) and one child, which
\* starts at (100,100), leaves at a right angle, and runs its whole length
\* without children, that is without meeting the mirror again.
C4_MirrorRightAngle ==
    MirrorScenario =>
        /\ Len(beams[1].segments) = 1
        /\ beams[1].segments[1].p1 = VI(0, 100)
        /\ beams[1].segments[1].p2 = VI(100, 100)
        /\ Len(beams[1].child_beams) = 1
        /\ LET c == beams[beams[1].child_beams[1]]
           IN  /\ c.start = VI(100, 100)
               /\ c.direction \in { VI(0, 1), VI(0, -1) }
               /\ c.child_beams = << >>
               /\ FullLength(c)

C4_Witness == MirrorScenario /\ Cardinality(Tree) = 2

\* The root's update has run its last iteration and is about to return: the
\* tree is complete and the surfaces are as the trace met them.
TraceComplete == Len(stack) = 1 /\ Top.results = << >>

\* What update finds for beam id
HitOf(id) ==
    NearestHit(game_objects, beams[id].start, beams[id].direction, Len(game_objects))

\* Beam id has budget left and meets a surface.
Struck(id) == ~BudgetExhausted(beams[id]) /\ HitOf(id).hit

RECURSIVE Descends(_, _)
Descends(d, a) ==
    /\ d # 1
    /\ \/ beams[d].parent = a
       \/ Descends(beams[d].parent, a)

Passable(obj) == obj.kind \in {"checkpoint", "filter"}

\* Surface j lies on beam id's line, beyond the surface the beam hits.
Behind(id, j) ==
    LET b == beams[id]
        r == IntersectWithRay(game_objects[j], b.start, b.direction)
    IN  /\ j # HitOf(id).obj
        /\ r.hit
        /\ Nearer(HitOf(id).p, r.p, b.start, b.direction)

\* C5: a beam whose nearest hit is a Checkpoint or a ColorFilter has one
\* child, starting at the hit point with the beam's direction, which is not
\* stopped by the same circle at its own start; and (budget permitting) every
\* surface behind the circle on the beam's line is hit by a descendant.
C5_CirclesPassable ==
    TraceComplete =>
        \A id \in Tree :
            (Struck(id) /\ Passable(game_objects[HitOf(id).obj])) =>
                /\ Len(beams[id].child_beams) = 1
                /\ LET c == beams[id].child_beams[1]
                   IN  /\ beams[c].start = HitOf(id).p
                       /\ beams[c].direction = beams[id].direction
                       /\ ~(/\ Struck(c)
                            /\ HitOf(c).obj = HitOf(id).obj
                            /\ HitOf(c).p = beams[c].start)
                /\ beams[id].reflection_count + 1 < MAX_REFLECTIONS =>
                       \A j \in 1..Len(game_objects) :
                           Behind(id, j) =>
                               \E d \in Tree : /\ Descends(d, id)
                                               /\ Struck(d)
                                               /\ HitOf(d).obj = j

\* ------------------------------------------------------------------------
\* Properties of the surfaces
\* ------------------------------------------------------------------------

\* Within 30 on every channel, 30 included
WithinTolerance(color, required) == \A k \in 1..3 : Abs(color[k] - required[k]) <= 30

\* C6: on a Checkpoint, a hit sets activated exactly when it already was set
\* or the hit's color is within tolerance of the required color, and raises
\* newly_activated only when it is the hit that activates; update() keeps
\* activated and lowers newly_activated; activated never falls.
C6_ActivatedOnce ==
    [][\A i \in 1..Len(game_objects) :
          game_objects[i].kind = "checkpoint" =>
              LET cp == game_objects[i]
                  after == game_objects'[i]
              IN  /\ cp.activated => after.activated
                  /\ \A color \in LightColors :
                        LightOf(color) =>
                            LET first == ~cp.activated
                                         /\ WithinTolerance(color, cp.required_color)
                            IN  /\ after.activated = (cp.activated \/ first)
                                /\ after.newly_activated = (cp.newly_activated \/ first)
                  /\ Tick => /\ after.activated = cp.activated
                             /\ ~after.newly_activated]_vars

\* A red at the edge of the tolerance hits a checkpoint that an earlier hit
\* activated and an update() has since acknowledged: nothing is raised again.
C6_Witness ==
    /\ call.obj # 0
    /\ call.surface.kind = "checkpoint"
    /\ call.surface.required_color = RED
    /\ call.surface.activated /\ ~call.surface.newly_activated
    /\ call.color = <<225, 0, 0>>
    /\ game_objects[1].activated /\ ~game_objects[1].newly_activated

\* C7: every call of a Checkpoint's interact_with_light returned exactly one
\* filter result with the incoming direction and color and intensity 0.95,
\* match or no match; and once RED light has hit a Checkpoint requiring RED,
\* it is activated.
C7_CheckpointPasses ==
    (call.obj # 0 /\ call.surface.kind = "checkpoint") =>
        /\ call.results = << [type |-> "filter", direction |-> call.direction,
                              color |-> call.color, intensity |-> 95] >>
        /\ (call.surface.required_color = RED /\ call.color = RED) =>
               game_objects[call.obj].activated

C7_Witness ==
    /\ call.obj # 0
    /\ call.surface.kind = "checkpoint"
    /\ call.surface.required_color = RED
    /\ ~call.surface.activated
    /\ call.color = RED
    /\ game_objects[call.obj].activated

\* C8: a Prism's interact_with_light returned the three refract results RED,
\* GREEN, BLUE at +0.1, 0, -0.1 radians with intensity 0.9 exactly when the
\* light was WHITE and dot(direction, normal) < 0, and otherwise one refract
\* result with the incoming color and direction and intensity 0.95.
C8_PrismSplit ==
    (call.obj # 0 /\ call.surface.kind = "prism") =>
        LET d == call.direction
            entering == QSgn(Dot(d, V(call.normal.x, call.normal.y))) < 0
        IN  IF call.color = WHITE /\ entering
            THEN call.results =
                   << [type |-> "refract", direction |-> Turned(d, 1),
                       color |-> RED, intensity |-> 90],
                      [type |-> "refract", direction |-> d,
                       color |-> GREEN, intensity |-> 90],
                      [type |-> "refract", direction |-> Turned(d, -1),
                       color |-> BLUE, intensity |-> 90] >>
            ELSE call.results =
                   << [type |-> "refract", direction |-> d,
                       color |-> call.color, intensity |-> 95] >>

\* WHITE light leaving through a side: dot >= 0, a single result.
C8_Witness ==
    /\ call.obj # 0
    /\ call.surface.kind = "prism"
    /\ call.color = WHITE
    /\ QSgn(Dot(call.direction, V(call.normal.x, call.normal.y))) >= 0
    /\ Len(call.results) = 1

\* C9: a ShadowCreature's interact_with_light returns exactly one absorb
\* result for every color, direction and normal; and a beam whose nearest hit
\* is a ShadowCreature has one segment, from its start to the hit point, and
\* no child beams.
C9_ShadowAbsorbs ==
    /\ \A i \in 1..Len(game_objects) :
          game_objects[i].kind = "shadow" =>
              \A color \in LightColors, direction \in LightDirections,
                 normal \in LightNormals :
                  InteractWithLight(game_objects[i], color, VI(0, 0), direction, normal)
                      = << [type |-> "absorb"] >>
    /\ TraceComplete =>
          \A id \in Tree :
              LET h == HitOf(id)
              IN  (/\ ~BudgetExhausted(beams[id])
                   /\ h.hit
                   /\ game_objects[h.obj].kind = "shadow") =>
                      /\ Len(beams[id].segments) = 1
                      /\ beams[id].segments[1].p1 = beams[id].start
                      /\ beams[id].segments[1].p2 = h.p
                      /\ beams[id].child_beams = << >>

C9_Witness ==
    /\ TraceComplete
    /\ \E id \in Tree : Struck(id) /\ game_objects[HitOf(id).obj].kind = "shadow"

Primary(color) == color \in {RED, GREEN, BLUE}

\* The outgoing color as C10 words it
RuleColor(filter_color, color) ==
    IF filter_color = WHITE THEN color
    ELSE IF color = WHITE THEN filter_color
    ELSE IF Primary(filter_color) /\ Primary(color) /\ filter_color # color
    THEN CASE {filter_color, color} = {RED, BLUE} -> MAGENTA
           [] {filter_color, color} = {RED, GREEN} -> YELLOW
           [] {filter_color, color} = {GREEN, BLUE} -> CYAN
    ELSE << Min(color[1], filter_color[1]), Min(color[2], filter_color[2]),
            Min(color[3], filter_color[3]) >>

InPalette(color) == \E i \in 1..Len(available_colors) : available_colors[i] = color

\* C10: for filter and incoming colors of the palette, a ColorFilter's
\* interact_with_light returned exactly one filter result with the incoming
\* direction, intensity 0.9, and the color of the rule: filter WHITE gives the
\* incoming color, incoming WHITE the filter's, two different primaries
\* their additive pair, every other pair the per-channel minimum.
C10_FilterRule ==
    (/\ call.obj # 0
     /\ call.surface.kind = "filter"
     /\ InPalette(call.surface.color)
     /\ InPalette(call.color)) =>
        call.results = << [type |-> "filter", direction |-> call.direction,
                           color |-> RuleColor(call.surface.color, call.color),
                           intensity |-> 90] >>

\* ------------------------------------------------------------------------
\* The player's beam: Game.create_light_beam and the frames that trace it
\* ------------------------------------------------------------------------

\* Positions of the player, and of the mouse relative to the player (the
\* mouse on the player itself included).
Players == { <<0, 100>>, <<385, 80>>, <<400, 500>> }

MouseOffsets == { <<0, 0>>, <<1, 0>>, <<3, 4>>, <<0, -1>>, <<-4, 3>> }

\* direction = mouse_pos - player, divided by its length `if length > 0`
CastDirection(direction, length) ==
    IF QSgn(length) > 0
    THEN V(QDiv(direction.x, length), QDiv(direction.y, length))
    ELSE direction

\* Circular surfaces about one centre, and the scenes the player casts into:
\* up to two of them, or one of them and a mirror, in either order; and a
\* mirror or a prism farther than BEAM_MAX_LENGTH from the player at (0, 100).
Coincident ==
    { ColorFilter(400, 100, CYAN), Checkpoint(400, 100, RED), Checkpoint(400, 100, WHITE),
      ShadowCreature(400, 100, << <<400, 100>>, <<400, 160>> >>, 30) }

CastScenes ==
    { << >>, << Mirror(100, 100, 90) >>, << Mirror(1200, 100, 90) >>, << Prism(1200, 100) >> }
    \cup { << a >> : a \in Coincident }
    \cup { << ab[1], ab[2] >> : ab \in { cd \in Coincident \X Coincident : cd[1] # cd[2] } }
    \cup { << Mirror(100, 100, 90), a >> : a \in Coincident }
    \cup { << a, Mirror(100, 100, 90) >> : a \in Coincident }

CastInit ==
    /\ game_objects \in CastScenes
    /\ beams = << >>
    /\ stack = << >>
    /\ frame = 0
    /\ call = NoCall
    /\ sounds = 0
    /\ raised = FALSE
    /\ game = NewGame

\* Game.create_light_beam, called when there is no light beam.
CreateLightBeam(player, offset) ==
    /\ beams = << >>
    /\ ~raised
    /\ beams' = << LightBeam(VI(player[1], player[2]),
                             CastDirection(VI(offset[1], offset[2]),
                                           QSqrt(Norm2(VI(offset[1], offset[2])))),
                             WHITE, 0, 100, 0) >>
    /\ UNCHANGED << game_objects, stack, frame, call, sounds, raised, game >>

Cast == \E player \in Players, offset \in MouseOffsets : CreateLightBeam(player, offset)

\* beam.update(self.game_objects) raises in the loop over game_objects: the
\* beam's segments and children are already cleared, and nothing catches the
\* exception on its way out of Game.update and of the frame loop.
AbortUpdate ==
    /\ Idle
    /\ frame < MaxFrames
    /\ beams # << >>
    /\ ~raised
    /\ ZeroDivision(game_objects, beams[1])
    /\ beams' = Cleared(beams, 1)
    /\ raised' = TRUE
    /\ UNCHANGED << game_objects, stack, frame, call, sounds, game >>

CastNext == Cast \/ AbortUpdate \/ Next

CastSpec == CastInit /\ [][CastNext]_vars

\* ------------------------------------------------------------------------
\* Properties of the tracer and the surfaces, continued
\* ------------------------------------------------------------------------

\* The latest call was made on a Mirror with a unit direction that is the
\* normal or its negation.
NormalIncidence ==
    /\ call.obj # 0
    /\ call.surface.kind = "mirror"
    /\ Norm2(call.direction) = QI(1)
    /\ \/ call.direction = V(call.normal.x, call.normal.y)
       \/ call.direction = V(QNeg(call.normal.x), QNeg(call.normal.y))

\* C11: a Mirror hit at normal incidence (unit direction equal to the normal
\* or to its negation) returns exactly one reflect result, whose direction is
\* the negation of the incoming direction, with the incoming color and
\* intensity 0.95.
C11_NormalIncidenceReverses ==
    NormalIncidence =>
        call.results = << [type |-> "reflect",
                           direction |-> V(QNeg(call.direction.x), QNeg(call.direction.y)),
                           color |-> call.color, intensity |-> 95] >>

\* A mirror has been lit along its normal (0, 1) and has sent the light
\* back along (0, -1).
C11_Witness ==
    /\ NormalIncidence
    /\ call.direction = VI(0, 1)
    /\ call.results[1].direction = VI(0, -1)

\* The intensity factor of the surface a beam with n children has hit, in
\* hundredths: 0.95 mirror, 0.9 prism split, 0.95 prism pass-through, 0.9
\* filter, 0.95 checkpoint.
SurfaceFactor(obj, n) ==
    CASE obj.kind = "mirror" -> 95
      [] obj.kind = "prism" -> IF n = 3 THEN 90 ELSE 95
      [] obj.kind = "filter" -> 90
      [] obj.kind = "checkpoint" -> 95

\* C12: in a completed trace every child beam's intensity is its parent's
\* intensity multiplied by the factor of the surface the parent has hit, so
\* no child is brighter than its parent.
C12_IntensityDecays ==
    TraceComplete =>
        \A id \in Tree \ {1} :
            LET p == beams[id].parent
                obj == game_objects[HitOf(p).obj]
            IN  /\ beams[id].intensity * 100 =
                       beams[p].intensity * SurfaceFactor(obj, Len(beams[p].child_beams))
                /\ beams[id].intensity <= beams[p].intensity

\* Distances from the centre of a circle at which the player's beam starts
\* when it is aimed at the centre.
AimedDistances == { 25, 400 }

\* What C13 requires of the hit h of a ray from `ray` along the unit vector
\* dir with a circle of diameter size about (cx, cy), the origin being at
\* distance t > size / 2 from the centre on the line through it.
NearPointHit(h, cx, cy, size, ray, dir, t) ==
    /\ h.hit
    /\ h.p = VSub(VI(cx, cy), VScale(dir, Q(size, 2)))
    /\ h.p = VAdd(ray, VScale(dir, QSub(QI(t), Q(size, 2))))
    /\ V(h.normal.x, h.normal.y) = VScale(VSub(h.p, VI(cx, cy)), Q(2, size))
    /\ Norm2(V(h.normal.x, h.normal.y)) = QI(1)

\* Beam b is aimed at the centre of circular surface obj from outside it, at
\* distance t, along a unit vector whose components the arithmetic holds
\* without rounding.
AimedAt(b, obj, t) ==
    /\ obj.kind \in {"filter", "checkpoint", "shadow"}
    /\ t * 2 > CircleSize(obj)
    /\ Norm2(b.direction) = QI(1)
    /\ Fl(b.direction.x) = b.direction.x
    /\ Fl(b.direction.y) = b.direction.y
    /\ VAdd(b.start, VScale(b.direction, QI(t))) = VI(obj.x, obj.y)

\* C13: a ray that starts outside a circular surface and runs through its
\* centre hits it at the near point, at distance r from the centre and
\* |origin - C| - r from the origin, with the unit normal (point - C) / r:
\* so it is for every beam of a completed trace that is aimed at the centre
\* of the surface it has hit (along an axis or along (3/5, 4/5)), and the
\* beam's segment ends at that point.
C13_NearPointThroughCentre ==
    TraceComplete =>
        \A id \in Tree : Struck(id) =>
            LET h == HitOf(id)
                obj == game_objects[h.obj]
            IN  \A t \in AimedDistances : AimedAt(beams[id], obj, t) =>
                    /\ NearPointHit(h, obj.x, obj.y, CircleSize(obj),
                                    beams[id].start, beams[id].direction, t)
                    /\ beams[id].segments[1].p2 = h.p

\* The player's beam, cast along (3/5, 4/5) from 25 away at a circular
\* surface about (400, 100), has been traced to the near point (388, 84).
C13_Witness ==
    /\ TraceComplete
    /\ Struck(1)
    /\ AimedAt(beams[1], game_objects[HitOf(1).obj], 25)
    /\ beams[1].segments[1].p2 = VI(388, 84)

\* C14: every root beam that create_light_beam has built has a unit (hence
\* non-zero) direction, wherever the mouse is, and no trace has raised an
\* exception out of the frame loop.
C14_RootDirectionUnit ==
    /\ beams # << >> => Norm2(beams[1].direction) = QI(1)
    /\ ~raised

\* C15: between two ticks, the activation sound has been played exactly once
\* for every Checkpoint activated so far (in the tick of its activation the
\* driver saw newly_activated and played it), and no flag is left raised.
C15_ActivationSounded ==
    Idle =>
        /\ sounds = Cardinality({ i \in 1..Len(game_objects) :
                                    /\ game_objects[i].kind = "checkpoint"
                                    /\ game_objects[i].activated })
        /\ \A i \in 1..Len(game_objects) :
              game_objects[i].kind = "checkpoint" => ~game_objects[i].newly_activated

\* Beam b has used up its budget.
OutOfBudget(b) == b.reflection_count >= MAX_REFLECTIONS

\* C16: when update is entered on a beam whose reflection_count is at least
\* MAX_REFLECTIONS, the beam gets exactly one segment, from its origin to
\* origin + direction * BEAM_MAX_LENGTH, and no children; no surface is
\* called and none changes (no Checkpoint is activated); and such a beam
\* never has a child or a segment that stops short.
C16_BudgetBeamRunsFree ==
    /\ [](\A id \in 1..Len(beams) : OutOfBudget(beams[id]) =>
              /\ beams[id].child_beams = << >>
              /\ beams[id].segments # << >> => FullLength(beams[id]))
    /\ [][Len(stack') > Len(stack) /\ OutOfBudget(beams'[stack'[Len(stack')].beam]) =>
              /\ FullLength(beams'[stack'[Len(stack')].beam])
              /\ stack'[Len(stack')].results = << >>
              /\ call' = call
              /\ game_objects' = game_objects]_vars

\* A beam out of budget has been traced to its full length although a
\* surface lies on its ray.
C16_Witness ==
    \E id \in Tree :
        /\ OutOfBudget(beams[id])
        /\ FullLength(beams[id])
        /\ \E i \in 1..Len(game_objects) :
              IntersectWithRay(game_objects[i], beams[id].start, beams[id].direction).hit

\* The surfaces of objs that report a hit for the ray, and the squared
\* Euclidean distance of surface i's hit point from the ray's origin.
Hits(objs, ray, dir) ==
    { i \in 1..Len(objs) : IntersectWithRay(objs[i], ray, dir).hit }

Dist2(objs, i, ray, dir) == Norm2(VSub(IntersectWithRay(objs[i], ray, dir).p, ray))

\* The surface C17 selects: among those reporting a hit, one at minimum
\* distance, the first of the collection among equals; 0 when none reports
\* a hit.
Selected(objs, ray, dir) ==
    IF Hits(objs, ray, dir) = {} THEN 0
    ELSE CHOOSE i \in Hits(objs, ray, dir) :
            \A j \in Hits(objs, ray, dir) :
                \/ QLt(Dist2(objs, i, ray, dir), Dist2(objs, j, ray, dir))
                \/ Dist2(objs, i, ray, dir) = Dist2(objs, j, ray, dir) /\ i <= j

\* What C17 requires of a step that enters update on beam b (budget left)
\* when surface sel is the one to select: the call goes to sel with sel's
\* hit point, where b's segment ends; with no surface to select, no call is
\* made and the segment runs to the beam's end.
SelectedIs(b, sel, old_call, new_call, objs) ==
    IF sel = 0
    THEN new_call = old_call /\ b.segments[1].p2 = b.end_
    ELSE /\ new_call.obj = sel
         /\ new_call.surface = objs[sel]
         /\ new_call.hit_point = IntersectWithRay(objs[sel], b.start, b.direction).p
         /\ b.segments[1].p2 = new_call.hit_point

\* C17: every step that enters update on a beam with budget left selects,
\* among the surfaces reporting a hit, the one at minimum Euclidean distance
\* from the beam's origin, the first of the collection when distances are
\* equal, and never a surface that reports no hit.
C17_NearestFirstSelected ==
    [][Len(stack') > Len(stack) /\ ~OutOfBudget(beams'[stack'[Len(stack')].beam]) =>
          SelectedIs(beams'[stack'[Len(stack')].beam],
                     Selected(game_objects, beams'[stack'[Len(stack')].beam].start,
                              beams'[stack'[Len(stack')].beam].direction),
                     call, call', game_objects)]_vars

\* The root has hit two surfaces at the same point, and the call has gone to
\* the first of the collection.
C17_Witness ==
    /\ Len(stack) = 1
    /\ Len(game_objects) = 2
    /\ beams[1].child_beams = << >>
    /\ Hits(game_objects, beams[1].start, beams[1].direction) = {1, 2}
    /\ Dist2(game_objects, 1, beams[1].start, beams[1].direction) =
           Dist2(game_objects, 2, beams[1].start, beams[1].direction)
    /\ call.obj = 1
    /\ call.surface = game_objects[1]

\* The interaction results the surface hit by beam id returns to it (none
\* for a beam that hits nothing or is out of budget), while the surfaces
\* stand where the trace of the frame found them.
ResultsFor(id, h) ==
    IF OutOfBudget(beams[id]) \/ ~h.hit THEN << >>
    ELSE InteractWithLight(game_objects[h.obj], beams[id].color, h.p,
                           beams[id].direction, h.normal)

NotAbsorb(r) == r.type \in {"reflect", "refract", "filter"}

\* Beam c is the child update builds at hit_point for result r of beam id.
ChildFor(c, id, r, hit_point) ==
    /\ c.start = hit_point
    /\ c.direction = r.direction
    /\ c.color = r.color
    /\ c.intensity = r.intensity
    /\ c.reflection_count = beams[id].reflection_count + 1
    /\ c.parent = id

\* The children of beam id are, one for one and in order, the children for
\* the results rs at hit_point.
ChildrenFor(id, rs, hit_point) ==
    /\ Len(beams[id].child_beams) = Len(rs)
    /\ \A k \in 1..Len(rs) :
          ChildFor(beams[beams[id].child_beams[k]], id, rs[k], hit_point)

\* C18: when the root's trace is complete, every beam of the tree that has
\* hit a surface has exactly one child for each reflect, refract or filter
\* result of the surface and none for an absorb result: the child starts at
\* the hit point, carries the result's direction, color and intensity, has
\* the parent's reflection_count + 1 and the hit beam as parent.
C18_OneChildPerResult ==
    TraceComplete =>
        \A id \in Tree :
            ChildrenFor(id, SelectSeq(ResultsFor(id, HitOf(id)), NotAbsorb),
                        beams[id].segments[1].p2)

\* A trace is complete in which a beam has three children (a split) and
\* another beam has hit a surface that absorbed it.
C18_Witness ==
    /\ TraceComplete
    /\ \E id \in Tree : Len(beams[id].child_beams) = 3
    /\ \E id \in Tree :
          /\ Struck(id)
          /\ Len(ResultsFor(id, HitOf(id))) = 1
          /\ beams[id].child_beams = << >>

\* C19: the running calls of update are a chain from the root, each on the
\* latest child of the call above it. A call that is entered with results
\* to run over has them as its surface returned them; the innermost call
\* alone moves: for the first result left it either appends the child for
\* that result to the end of child_beams and enters its update, or passes
\* an absorb; and update returns only with no result left, so that a child's
\* whole subtree is traced before the next sibling is created and before
\* the parent's update returns.
C19_DepthFirstInOrder ==
    /\ [](~Idle =>
              /\ stack[1].beam = 1
              /\ \A k \in 1..(Len(stack) - 1) :
                    /\ beams[stack[k + 1].beam].parent = stack[k].beam
                    /\ beams[stack[k].beam].child_beams # << >>
                    /\ beams[stack[k].beam].child_beams[
                           Len(beams[stack[k].beam].child_beams)] = stack[k + 1].beam)
    /\ [][/\ (Len(stack') = Len(stack) + 1 /\ stack'[Len(stack')].results # << >>) =>
               (/\ stack'[Len(stack')].results = call'.results
                /\ stack'[Len(stack')].hit_point = call'.hit_point)
          /\ (Len(stack') = Len(stack) + 1 /\ ~Idle) =>
               (/\ NotAbsorb(Head(Top.results))
                /\ beams'[Top.beam].child_beams =
                       Append(beams[Top.beam].child_beams, stack'[Len(stack')].beam)
                /\ ChildFor(beams'[stack'[Len(stack')].beam], Top.beam,
                            Head(Top.results), Top.hit_point)
                /\ SubSeq(stack', 1, Len(stack)) =
                       [stack EXCEPT ![Len(stack)].results = Tail(@)])
          /\ (Len(stack') = Len(stack) /\ stack' # stack) =>
               (/\ Head(Top.results).type = "absorb"
                /\ stack' = [stack EXCEPT ![Len(stack)].results = Tail(@)]
                /\ beams' = beams)
          /\ (Len(stack') < Len(stack)) =>
               (/\ Top.results = << >>
                /\ stack' = SubSeq(stack, 1, Len(stack) - 1)
                /\ beams' = beams)]_vars

\* The second child of the root's split is being traced, and the first
\* child's own child has been traced already.
C19_Witness ==
    /\ Len(stack) = 2
    /\ Len(beams[1].child_beams) = 2
    /\ Len(stack[1].results) = 1
    /\ Top.beam = beams[1].child_beams[2]
    /\ beams[beams[1].child_beams[1]].child_beams # << >>
    /\ beams[beams[beams[1].child_beams[1]].child_beams[1]].segments # << >>

\* update has been called on beam id of the tree (the root before the first
\* frame is the one beam it has not been called on).
Updated(id) == ~(id = 1 /\ frame = 0 /\ Idle)

\* C20: every beam update has been called on holds exactly one segment,
\* which starts at the beam's origin and has its color and intensity, also
\* after a second call; every beam reachable from the root through
\* child_beams is active; and a step that enters update on a beam leaves
\* each of its previous children inactive and out of its child_beams.
C20_OneSegmentFreshChildren ==
    /\ [](\A id \in Tree :
              /\ beams[id].active
              /\ Updated(id) =>
                    /\ Len(beams[id].segments) = 1
                    /\ beams[id].segments[1].p1 = beams[id].start
                    /\ beams[id].segments[1].color = beams[id].color
                    /\ beams[id].segments[1].intensity = beams[id].intensity)
    /\ [][Len(stack') > Len(stack) /\ stack'[Len(stack')].beam <= Len(beams) =>
              \A k \in 1..Len(beams[stack'[Len(stack')].beam].child_beams) :
                  LET old == beams[stack'[Len(stack')].beam].child_beams[k]
                  IN  /\ ~beams'[old].active
                      /\ \A j \in 1..Len(beams'[stack'[Len(stack')].beam].child_beams) :
                            beams'[stack'[Len(stack')].beam].child_beams[j] # old]_vars

\* In its second frame the root has been updated again: it holds one segment
\* and a child of the first frame is inactive and no longer its child.
C20_Witness ==
    /\ frame = 1
    /\ ~Idle
    /\ Len(beams[1].segments) = 1
    /\ \E old \in 2..Len(beams) :
          /\ beams[old].parent = 1
          /\ ~beams[old].active
          /\ old \notin Tree

\* ------------------------------------------------------------------------
\* Properties of the surfaces' geometry and of the game's progression
\* ------------------------------------------------------------------------

\* The length of segment seg of beam b, whose direction is a unit vector.
SegmentLength(b, seg) == RayParam(seg.p2, b.start, b.direction)

\* C21: no segment of a beam is longer than BEAM_MAX_LENGTH: a mirror or a
\* prism whose intersection point lies farther than that from the ray's
\* origin is not hit.
C21_SegmentsWithinMaxLength ==
    \A id \in 1..Len(beams) :
        Norm2(beams[id].direction) = QI(1) =>
            \A k \in 1..Len(beams[id].segments) :
                QLe(SegmentLength(beams[id], beams[id].segments[k]), QI(BEAM_MAX_LENGTH))

Cross(u, v) == QSub(QMul(u.x, v.y), QMul(u.y, v.x))

\* The latest call is mirror.intersect_with_ray.
Queried == call.obj # 0 /\ call.method = "intersect_with_ray"

\* The segment of the queried mirror as a vector, and the ray's origin
\* relative to the segment's start.
QueriedSegment == VSub(call.surface.end_point, call.surface.start_point)

QueriedOrigin == VSub(call.ray, call.surface.start_point)

\* The ray is parallel to the mirror's line or lies in it; the ray's origin
\* lies on the mirror's line.
QueriedParallel == Cross(QueriedSegment, call.direction) = QI(0)

QueriedOnLine == Cross(QueriedSegment, QueriedOrigin) = QI(0)

\* Where the ray's line meets the mirror's line (they are not parallel): the
\* parameter along the segment, 0 at start_point and 1 at end_point, and
\* the parameter along the ray, 0 at the origin and positive ahead of it.
SegmentParameter ==
    QDiv(Cross(QueriedOrigin, call.direction), Cross(QueriedSegment, call.direction))

RayParameter ==
    QDiv(Cross(QueriedOrigin, QueriedSegment), Cross(QueriedSegment, call.direction))

\* C22: Mirror.intersect_with_ray returns no hit, as a value, for a ray
\* parallel to the mirror or lying in its line, for lines that meet outside
\* the segment, and for a meeting point that is not strictly ahead of the
\* ray's origin; a ray whose origin lies on the mirror's line has no hit.
C22_NoHitIsAValue ==
    Queried =>
        /\ call.result = NoHit \/ call.result.hit
        /\ QueriedParallel => call.result = NoHit
        /\ QueriedOnLine => call.result = NoHit
        /\ ~QueriedParallel =>
              /\ QLt(SegmentParameter, QI(0)) \/ QLt(QI(1), SegmentParameter)
                    => call.result = NoHit
              /\ QLe(RayParameter, QI(0)) => call.result = NoHit

\* A ray across the mirror from a point of its line other than its centre
\* has been answered with no hit.
C22_Witness ==
    /\ Queried
    /\ QueriedOnLine
    /\ ~QueriedParallel
    /\ call.ray # VI(call.surface.x, call.surface.y)
    /\ call.result = NoHit

\* The surface without its activation flags (a Checkpoint's only).
Unlit(obj) ==
    IF obj.kind = "checkpoint"
    THEN [obj EXCEPT !.activated = FALSE, !.newly_activated = FALSE]
    ELSE obj

\* The step is the return of the root's update, after which Game.update
\* goes on to the objects' own update().
RootReturns == Len(stack) = 1 /\ stack' = << >>

\* C23: no step of a trace, from the entry of the root's update to its
\* return, changes a surface in anything but a Checkpoint's activated and
\* newly_activated: the collection keeps its length and order, and every
\* mirror (angle, endpoints, normal), prism, filter (color, color_index) and
\* shadow creature (position, current_target) stays as it was.
C23_TraceLeavesSurfaces ==
    [][~RootReturns =>
          /\ Len(game_objects') = Len(game_objects)
          /\ \A i \in 1..Len(game_objects) :
                Unlit(game_objects'[i]) = Unlit(game_objects[i])]_vars

\* A trace two calls deep has lit a ColorFilter, which is as it was before.
C23_Witness ==
    /\ Len(stack) >= 2
    /\ call.obj # 0
    /\ call.surface.kind = "filter"
    /\ game_objects[call.obj] = call.surface

\* The latest calls are n clicks in a row.
Clicks(n) == call.obj # 0 /\ call.method = "interact" /\ call.clicks = n

\* The step is a click on the object: obj.interact() has been called.
Clicked == call'.obj # 0 /\ call'.method = "interact" /\ call'.surface = game_objects[1]

\* C24: at every moment from its construction on, a mirror's start_point,
\* end_point and normal are those update_rect derives from its position and
\* its current angle, and the angle is in [0, 360); each interact turns the
\* angle to (angle + 5) mod 360 and leaves the position; 72 interacts in a
\* row give back the mirror, angle and geometry, as it was.
C24_MirrorGeometryFresh ==
    /\ [](game_objects[1].kind = "mirror" =>
             /\ game_objects[1] = update_rect(game_objects[1])
             /\ game_objects[1].angle \in 0..359
             /\ Clicks(72) => game_objects[1] = call.since)
    /\ [][game_objects[1].kind = "mirror" /\ Clicked =>
             /\ game_objects'[1].angle = (game_objects[1].angle + 5) % 360
             /\ game_objects'[1].x = game_objects[1].x
             /\ game_objects'[1].y = game_objects[1].y]_vars

\* The 72nd click in a row has turned a mirror from 355 degrees to 0, where
\* it lay when the clicks began.
C24_Witness ==
    /\ Clicks(72)
    /\ call.surface.kind = "mirror"
    /\ call.surface.angle = 355
    /\ game_objects[1] = Mirror(100, 100, 0)

\* The palette entry that follows color, the first one after the last.
Following(color) ==
    available_colors[(IndexOf(available_colors, color) % Len(available_colors)) + 1]

\* C25: at every moment from its construction on, a ColorFilter's color is
\* the entry of the palette [RED, GREEN, BLUE, YELLOW, CYAN, MAGENTA, WHITE]
\* at color_index; each interact moves the color to the entry that follows
\* it, RED after WHITE; 7 interacts in a row give back the filter as it was.
C25_FilterCyclesPalette ==
    /\ [](game_objects[1].kind = "filter" =>
             /\ available_colors = << RED, GREEN, BLUE, YELLOW, CYAN, MAGENTA, WHITE >>
             /\ game_objects[1].color_index \in 0..(Len(available_colors) - 1)
             /\ game_objects[1].color = available_colors[game_objects[1].color_index + 1]
             /\ Clicks(7) => game_objects[1] = call.since)
    /\ [][game_objects[1].kind = "filter" /\ Clicked =>
             game_objects'[1].color = Following(game_objects[1].color)]_vars

\* The 7th click in a row has turned a WHITE filter RED, as it was when the
\* clicks began.
C25_Witness ==
    /\ Clicks(7)
    /\ call.surface.kind = "filter"
    /\ call.surface.color = WHITE
    /\ game_objects[1].color = RED

\* The step is obj.update() on the object.
Updates == call'.obj # 0 /\ call'.method = "update" /\ call'.surface = game_objects[1]

\* Target number t of creature sc, and the square of sc's distance to it.
TargetOf(sc, t) == sc.path[t + 1]

Distance2(sc, t) ==
    (TargetOf(sc, t)[1] - sc.x) * (TargetOf(sc, t)[1] - sc.x)
    + (TargetOf(sc, t)[2] - sc.y) * (TargetOf(sc, t)[2] - sc.y)

\* to is sc moved by one step of length sc.speed straight toward target t.
StepToward(sc, to, t) ==
    /\ (to.x - sc.x) * (to.x - sc.x) + (to.y - sc.y) * (to.y - sc.y) = sc.speed * sc.speed
    /\ (to.x - sc.x) * (TargetOf(sc, t)[2] - sc.y)
          = (to.y - sc.y) * (TargetOf(sc, t)[1] - sc.x)
    /\ (to.x - sc.x) * (TargetOf(sc, t)[1] - sc.x)
          + (to.y - sc.y) * (TargetOf(sc, t)[2] - sc.y) > 0

\* One update() of creature sc gives creature to, as the patrol rule says.
PatrolStep(sc, to) ==
    IF Distance2(sc, sc.current_target) < sc.speed * sc.speed
    THEN to = [sc EXCEPT !.current_target = (sc.current_target + 1) % Len(sc.path)]
    ELSE /\ to = [sc EXCEPT !.x = to.x, !.y = to.y]
         /\ StepToward(sc, to, sc.current_target)

\* The latest update() found the creature within one step of target t and
\* advanced it to the next target, the first after the last.
AdvancedPast(t) ==
    /\ call.obj # 0
    /\ call.method = "update"
    /\ call.surface.current_target = t
    /\ Distance2(call.surface, t) < call.surface.speed * call.surface.speed
    /\ game_objects[1] = [call.surface EXCEPT !.current_target = (t + 1) % Len(call.surface.path)]

Patrolling ==
    /\ game_objects[1].kind = "shadow"
    /\ game_objects[1].speed > 0
    /\ Len(game_objects[1].path) >= 2

\* C26: under repeated update() a creature with speed > 0 and a path of at
\* least 2 points keeps current_target a valid index of the path; each
\* update() either advances current_target to the next index, the first
\* after the last, without moving (the target is less than one step away) or
\* moves the creature one step of length speed straight toward the target;
\* and every target of the path is again and again come within a step of
\* and advanced past.
C26_PatrolsForever ==
    /\ [](Patrolling =>
             game_objects[1].current_target \in 0..(Len(game_objects[1].path) - 1))
    /\ [][Patrolling /\ Updates => PatrolStep(game_objects[1], game_objects'[1])]_vars
    /\ \A sc \in Patrols : \A t \in 0..(Len(sc.path) - 1) :
          []<>(Patrolling /\ game_objects[1].path = sc.path => AdvancedPast(t))

\* The creature on the square path has been round it and has just advanced
\* past its last corner, back to the first.
C26_Witness ==
    /\ Patrolling
    /\ Len(game_objects[1].path) = 4
    /\ AdvancedPast(3)
    /\ game_objects[1].current_target = 0

\* The beams from beam id up to the root that have more than one child.
SplitsAbove(id) ==
    { a \in Tree : (a = id \/ Descends(id, a)) /\ Len(beams[a].child_beams) > 1 }

\* C27: in the tree, traced or being traced, the child of a beam that is
\* not WHITE is not WHITE (and no palette color but WHITE leaves a palette
\* filter WHITE); a beam has more than one child only if it is WHITE, and
\* then at most three; no path from the root to a beam holds more than one
\* such split; and the tree has at most 3 beams without children.
C27_OneSplitThreeLeaves ==
    /\ \A id \in Tree \ {1} :
           beams[beams[id].parent].color # WHITE => beams[id].color # WHITE
    /\ \A i, j \in 1..Len(available_colors) :
           available_colors[j] # WHITE =>
               FilteredColor(available_colors[i], available_colors[j]) # WHITE
    /\ \A id \in Tree :
           Len(beams[id].child_beams) > 1 =>
               beams[id].color = WHITE /\ Len(beams[id].child_beams) <= 3
    /\ \A id \in Tree : Cardinality(SplitsAbove(id)) <= 1
    /\ Cardinality(Leaves) <= 3

\* A prism has split the WHITE root, the GREEN beam has left the prism and
\* run on into the CYAN filter, which let it on GREEN: three leaves.
C27_Witness ==
    /\ Traced
    /\ Len(beams[1].child_beams) = 3
    /\ Cardinality(Leaves) = 3
    /\ \E id \in Tree : /\ beams[id].color = GREEN
                        /\ Struck(id)
                        /\ game_objects[HitOf(id).obj].kind = "filter"
                        /\ Len(beams[id].child_beams) = 1
                        /\ beams[beams[id].child_beams[1]].color = GREEN

\* Beams constructed by one update of the root, when every update so far
\* constructed as many.
TraceSize == (Len(beams) - 1) \div frame

\* The beams the latest update of the root constructed, and those of the
\* update before it.
LastTrace == (Len(beams) - TraceSize + 1)..Len(beams)

PreviousTrace == (Len(beams) - 2 * TraceSize + 1)..(Len(beams) - TraceSize)

\* The beam of the previous trace constructed at the same point of the
\* recursion as beam id of the latest; the root is its own.
Previous(id) == IF id = 1 THEN 1 ELSE id - TraceSize

\* Beam b of the latest trace is beam a of the previous one over again.
SameBeam(b, a) ==
    /\ b.start = a.start
    /\ b.direction = a.direction
    /\ b.color = a.color
    /\ b.intensity = a.intensity
    /\ b.reflection_count = a.reflection_count
    /\ b.segments = a.segments
    /\ Previous(b.parent) = a.parent
    /\ [k \in 1..Len(b.child_beams) |-> Previous(b.child_beams[k])] = a.child_beams

\* No surface changes between two updates of the root but by what the
\* light did to it: nothing is clicked in these behaviours, and no creature
\* walks.
LeftAlone == \A i \in 1..Len(game_objects) : game_objects[i].kind # "shadow"

\* The root's update is entered again.
Retraces == Idle /\ frame >= 1 /\ ~Idle'

\* C28: when the root has been updated twice or more and no surface was
\* changed from outside in between, the latest update built the tree of the
\* one before over again: as many beams, each with the start, direction,
\* color, intensity, reflection_count and segments of its counterpart, under
\* the counterpart of its parent and with the counterparts of its children
\* in the same order; and re-entering the root's update leaves the root its
\* segments.
C28_RetraceIdentical ==
    /\ []((Idle /\ frame >= 2 /\ LeftAlone) =>
             /\ Len(beams) = 1 + frame * TraceSize
             /\ \A id \in LastTrace : SameBeam(beams[id], beams[Previous(id)])
             /\ [k \in 1..Len(beams[1].child_beams) |-> Previous(beams[1].child_beams[k])]
                    = Ascending({ j \in PreviousTrace : beams[j].parent = 1 }))
    /\ [][(Retraces /\ LeftAlone) =>
             /\ beams'[1].segments = beams[1].segments
             /\ beams'[1].color = beams[1].color
             /\ beams'[1].intensity = beams[1].intensity
             /\ beams'[1].reflection_count = beams[1].reflection_count]_vars

\* The RED root was traced twice through a Checkpoint that the first trace
\* activated, and has a child behind it.
C28_Witness ==
    /\ Idle
    /\ frame = 2
    /\ LeftAlone
    /\ TraceSize >= 1
    /\ \E i \in 1..Len(game_objects) :
           /\ game_objects[i].kind = "checkpoint"
           /\ game_objects[i].activated
           /\ HitOf(1).hit
           /\ HitOf(1).obj = i
    /\ Len(beams[1].child_beams) = 1

\* The step takes the game from playing to level_complete.
Completes == game.state = "playing" /\ game'.state = "level_complete"

\* C29: the game goes from playing to level_complete only by a frame that
\* leaves the loaded level, which stays the loaded one, with at least one
\* Checkpoint and every Checkpoint activated, and that frame marks the level
\* completed; a frame that leaves a Checkpoint not activated, or a level
\* without one, keeps the game playing and completes nothing; and the level
\* complete screen always shows a level with every Checkpoint activated.
C29_CompleteOnlyWhenAllActivated ==
    /\ [][Completes =>
             /\ Checkpoints(game_objects') # {}
             /\ \A i \in Checkpoints(game_objects') : game_objects'[i].activated
             /\ game'.level_number = game.level_number
             /\ game'.completed = game.completed \cup {game.level_number}]_vars
    /\ [][(/\ game.state = "playing"
           /\ game'.level_number = game.level_number
           /\ \/ Checkpoints(game_objects') = {}
              \/ \E i \in Checkpoints(game_objects') : ~game_objects'[i].activated) =>
             /\ game'.state # "level_complete"
             /\ game'.completed = game.completed]_vars
    /\ [](game.state = "level_complete" =>
             /\ Checkpoints(game_objects) # {}
             /\ \A i \in Checkpoints(game_objects) : game_objects[i].activated)

\* Level 3 is complete: its three checkpoints are activated.
C29_Witness ==
    /\ game.state = "level_complete"
    /\ game.level_number = 3
    /\ Cardinality(Checkpoints(game_objects)) = 3
    /\ \A i \in Checkpoints(game_objects) : game_objects[i].activated
    /\ 3 \in game.completed

\* LevelManager's level numbers are in order and in range.
LevelBounds ==
    /\ 1 <= game.current_level
    /\ game.current_level <= game.max_level_reached
    /\ game.max_level_reached <= MAX_LEVEL

\* C30: over any sequence of start-game, level-select, level-completion,
\* pause and return-to-menu actions, 1 <= current_level <=
\* max_level_reached <= MAX_LEVEL, and every level n > 1 that is selectable
\* (n <= max_level_reached) has had level n - 1 completed.
C30_UnlockingFollowsCompletion ==
    /\ LevelBounds
    /\ \A n \in 2..MAX_LEVEL :
           n <= game.max_level_reached => (n - 1) \in game.completed

====
